---- MODULE Spec2Model ----
(***************************************************************************)
(* DocumentProcessor (src/src/services/document_processor.py): the section *)
(* accumulator pass of _process_pdf_sync over merged layout lines, the     *)
(* header / front-matter classifiers, and the page-aware chunkers          *)
(* _chunk_text (cascade splitter) and _chunk_text_fallback.                *)
(*                                                                         *)
(* Text is a sequence of one-character strings, indexed from 1; Python     *)
(* offsets (match.start(), char_offset) are kept 0-based as in the code.   *)
(* A piece of text produced by the splitters is kept as a span <<a, b>>    *)
(* (first and last index, inclusive) of the cleaned text it was cut from;  *)
(* the emitted chunk text is the stripped SubSeq of that span.             *)
(***************************************************************************)
EXTENDS Integers, Sequences, FiniteSets, TLC

(***************************************************************************)
(* Characters and strings.  The characters of the model are those of       *)
(* Latin-1, U+0001 to U+00FF; the classes below are the ones of Python's   *)
(* str methods and of the re module on that range.                         *)
(***************************************************************************)
DigitChars == <<"0","1","2","3","4","5","6","7","8","9">>

\* the characters c with c.isupper(), and c.lower() at the same index of
\* LowerChars
UpperChars ==
  <<
    "A","B","C","D","E","F","G","H","I","J","K","L","M",
    "N","O","P","Q","R","S","T","U","V","W","X","Y","Z",
    "À","Á","Â","Ã","Ä","Å","Æ","Ç","È","É","Ê","Ë","Ì",
    "Í","Î","Ï","Ð","Ñ","Ò","Ó","Ô","Õ","Ö","Ø","Ù","Ú",
    "Û","Ü","Ý","Þ"
  >>

LowerChars ==
  <<
    "a","b","c","d","e","f","g","h","i","j","k","l","m",
    "n","o","p","q","r","s","t","u","v","w","x","y","z",
    "à","á","â","ã","ä","å","æ","ç","è","é","ê","ë","ì",
    "í","î","ï","ð","ñ","ò","ó","ô","õ","ö","ø","ù","ú",
    "û","ü","ý","þ"
  >>

\* \d (and what int() reads): the decimal digits
DigitSet == {DigitChars[i] : i \in 1..Len(DigitChars)}

UpperSet == {UpperChars[i] : i \in 1..Len(UpperChars)}

\* str.strip(), str.split() and the regex class \s: tab, line feed, vertical
\* tab, form feed, carriage return, U+001C to U+001F, space, U+0085 (next
\* line) and U+00A0 (no-break space)
Whitespace ==
  {"\t", "\n", "", "\f", "\r", "", "", "", "",
   " ", "", " "}

LowerOf == [c \in UpperSet |-> LowerChars[CHOOSE i \in 1..Len(UpperChars) : UpperChars[i] = c]]

DigitValue == [c \in DigitSet |-> (CHOOSE i \in 1..10 : DigitChars[i] = c) - 1]

IsSpace(c) == c \in Whitespace

IsDigit(c) == c \in DigitSet

IsUpper(c) == c \in UpperSet

\* str.lower()
str_lower(s) == [i \in 1..Len(s) |-> IF s[i] \in UpperSet THEN LowerOf[s[i]] ELSE s[i]]

\* s[i-1:].startswith(p), i counted from 1
StartsWithAt(s, i, p) ==
  /\ i + Len(p) - 1 <= Len(s)
  /\ \A k \in 1..Len(p) : s[i + k - 1] = p[k]

\* p in s
Contains(s, p) == \E i \in 1..(Len(s) - Len(p) + 1) : StartsWithAt(s, i, p)

\* p occurs inside s[a..b]
ContainsIn(s, a, b, p) == \E i \in a..(b - Len(p) + 1) : StartsWithAt(s, i, p)

\* the indices a, a + 1, ..., b as a sequence
Indices(a, b) == [i \in 1..(b - a + 1) |-> a + i - 1]

\* the first index j >= i with s[j] outside set, Len(s) + 1 when there is none
FirstNotIn(s, i, set) ==
  IF i > Len(s) THEN i
  ELSE CHOOSE j \in i..(Len(s) + 1) :
         /\ j = Len(s) + 1 \/ s[j] \notin set
         /\ \A k \in i..(j - 1) : s[k] \in set

\* the first index j >= i with s[j] in set, Len(s) + 1 when there is none
FirstIn(s, i, set) ==
  IF i > Len(s) THEN i
  ELSE CHOOSE j \in i..(Len(s) + 1) :
         /\ j = Len(s) + 1 \/ s[j] \in set
         /\ \A k \in i..(j - 1) : s[k] \notin set

\* the last index j <= i with s[j] outside set, 0 when there is none
LastNotIn(s, i, set) ==
  IF i < 1 THEN i
  ELSE CHOOSE j \in 0..i :
         /\ j = 0 \/ s[j] \notin set
         /\ \A k \in (j + 1)..i : s[k] \in set

\* s.lstrip(chars)
str_lstrip(s, set) == SubSeq(s, FirstNotIn(s, 1, set), Len(s))

\* s.strip()
str_strip(s) == SubSeq(s, FirstNotIn(s, 1, Whitespace), LastNotIn(s, Len(s), Whitespace))

\* s.split(): the maximal runs of non-whitespace
str_split(s) ==
  LET starts == SelectSeq(Indices(1, Len(s)),
                          LAMBDA i : ~IsSpace(s[i]) /\ (i = 1 \/ IsSpace(s[i - 1])))
  IN [k \in 1..Len(starts) |-> SubSeq(s, starts[k], FirstIn(s, starts[k], Whitespace) - 1)]

\* s.count(c)
str_count(s, c) == Cardinality({i \in 1..Len(s) : s[i] = c})

\* str(n) for n >= 0
RECURSIVE Digits(_)
Digits(n) ==
  IF n < 10 THEN <<DigitChars[n + 1]>>
  ELSE Digits(n \div 10) \o <<DigitChars[(n % 10) + 1]>>

\* int(ds) for a run of decimal digits
RECURSIVE ParseInt(_)
ParseInt(ds) ==
  IF Len(ds) = 0 THEN 0
  ELSE 10 * ParseInt(SubSeq(ds, 1, Len(ds) - 1)) + DigitValue[ds[Len(ds)]]

\* " ".join(parts)
RECURSIVE JoinSpace(_)
JoinSpace(parts) ==
  IF Len(parts) = 0 THEN << >>
  ELSE IF Len(parts) = 1 THEN parts[1]
  ELSE parts[1] \o <<" ">> \o JoinSpace(Tail(parts))

(***************************************************************************)
(* Page markers: self._page_pattern = re.compile(r'\[PAGE (\d+)\]') and    *)
(* self._whitespace_re = re.compile(r"\s+")                                *)
(***************************************************************************)
PageOpen == <<"[","P","A","G","E"," ">>

\* f"[PAGE {page_no}] {text}"
page_tagged(page_no, text) == PageOpen \o Digits(page_no) \o <<"]", " ">> \o text

\* the index of the closing "]" of a marker that starts at index i, 0 when
\* no marker starts there
MarkerEnd(text, i) ==
  IF ~StartsWithAt(text, i, PageOpen) THEN 0
  ELSE LET d == i + Len(PageOpen)
           j == FirstNotIn(text, d, DigitSet)
       IN IF j > d /\ j <= Len(text) /\ text[j] = "]" THEN j ELSE 0

\* the start indices of the markers of text, left to right (two markers never
\* overlap: a marker holds one "[", its first character)
marker_starts(text) ==
  SelectSeq(Indices(1, Len(text)), LAMBDA i : MarkerEnd(text, i) # 0)

\* [(match.start(), int(match.group(1))) for match in _page_pattern.finditer(text)]
page_positions(text) ==
  LET starts == marker_starts(text)
  IN [k \in 1..Len(starts) |->
        <<starts[k] - 1,
          ParseInt(SubSeq(text, starts[k] + Len(PageOpen), MarkerEnd(text, starts[k]) - 1))>>]

\* a cleaner that leaves the markers where they are (a variant of
\* strip_markers, used to show that a property depends on the stripping)
keep_markers(text) == text

\* _page_pattern.sub('', text)
RECURSIVE StripMarkersFrom(_, _, _, _)
StripMarkersFrom(text, starts, k, from) ==
  IF k > Len(starts) THEN SubSeq(text, from, Len(text))
  ELSE SubSeq(text, from, starts[k] - 1)
       \o StripMarkersFrom(text, starts, k + 1, MarkerEnd(text, starts[k]) + 1)

strip_markers(text) == StripMarkersFrom(text, marker_starts(text), 1, 1)

\* _whitespace_re.sub(' ', text): every maximal whitespace run becomes one space
collapse_whitespace(text) ==
  LET kept == SelectSeq(Indices(1, Len(text)),
                        LAMBDA i : ~IsSpace(text[i]) \/ i = 1 \/ ~IsSpace(text[i - 1]))
  IN [k \in 1..Len(kept) |-> IF IsSpace(text[kept[k]]) THEN " " ELSE text[kept[k]]]

\* clean_text = _whitespace_re.sub(' ', _page_pattern.sub('', text)).strip()
clean_text(text) == str_strip(collapse_whitespace(strip_markers(text)))

(***************************************************************************)
(* DocumentProcessor.__init__: the alias table, in dict order (canonical   *)
(* sections in insertion order, each with its variants in list order), and *)
(* the metadata skip patterns                                              *)
(***************************************************************************)
section_aliases ==
  <<
    [canonical |-> "abstract", variant |-> <<"a","b","s","t","r","a","c","t">>],
    [canonical |-> "abstract", variant |-> <<"A","b","s","t","r","a","c","t">>],
    [canonical |-> "abstract", variant |-> <<"A","B","S","T","R","A","C","T">>],
    [canonical |-> "abstract", variant |-> <<"s","u","m","m","a","r","y">>],
    [canonical |-> "abstract", variant |-> <<"e","x","e","c","u","t","i","v","e"," ","s","u","m","m","a","r","y">>],
    [canonical |-> "introduction", variant |-> <<"i","n","t","r","o","d","u","c","t","i","o","n">>],
    [canonical |-> "introduction", variant |-> <<"I","n","t","r","o","d","u","c","t","i","o","n">>],
    [canonical |-> "introduction", variant |-> <<"I","N","T","R","O","D","U","C","T","I","O","N">>],
    [canonical |-> "introduction", variant |-> <<"1","."," ","i","n","t","r","o","d","u","c","t","i","o","n">>],
    [canonical |-> "introduction", variant |-> <<"1"," ","i","n","t","r","o","d","u","c","t","i","o","n">>],
    [canonical |-> "methodology", variant |-> <<"m","e","t","h","o","d","o","l","o","g","y">>],
    [canonical |-> "methodology", variant |-> <<"M","E","T","H","O","D","O","L","O","G","Y">>],
    [canonical |-> "methodology", variant |-> <<"m","e","t","h","o","d","s">>],
    [canonical |-> "methodology", variant |-> <<"m","a","t","e","r","i","a","l","s"," ","a","n","d"," ","m","e","t","h","o","d","s">>],
    [canonical |-> "methodology", variant |-> <<"r","e","s","e","a","r","c","h"," ","m","e","t","h","o","d","o","l","o","g","y">>],
    [canonical |-> "methodology", variant |-> <<"R","e","s","e","a","r","c","h"," ","M","e","t","h","o","d","o","l","o","g","y">>],
    [canonical |-> "methodology", variant |-> <<"r","e","s","e","a","r","c","h"," ","m","e","t","h","o","d","s">>],
    [canonical |-> "methodology", variant |-> <<"e","x","p","e","r","i","m","e","n","t","a","l"," ","s","e","t","u","p">>],
    [canonical |-> "methodology", variant |-> <<"a","p","p","r","o","a","c","h">>],
    [canonical |-> "methodology", variant |-> <<"m","e","t","h","o","d">>],
    [canonical |-> "methodology", variant |-> <<"2","."," ","r","e","s","e","a","r","c","h"," ","m","e","t","h","o","d","o","l","o","g","y">>],
    [canonical |-> "methodology", variant |-> <<"2"," ","r","e","s","e","a","r","c","h"," ","m","e","t","h","o","d","o","l","o","g","y">>],
    [canonical |-> "methodology", variant |-> <<"2","."," ","m","e","t","h","o","d","o","l","o","g","y">>],
    [canonical |-> "methodology", variant |-> <<"2"," ","m","e","t","h","o","d","o","l","o","g","y">>],
    [canonical |-> "results", variant |-> <<"R","e","s","u","l","t","s">>],
    [canonical |-> "results", variant |-> <<"r","e","s","u","l","t","s"," ","a","n","d"," ","d","i","s","c","u","s","s","i","o","n">>],
    [canonical |-> "results", variant |-> <<"f","i","n","d","i","n","g","s">>],
    [canonical |-> "results", variant |-> <<"a","n","a","l","y","s","i","s">>],
    [canonical |-> "results", variant |-> <<"o","u","t","c","o","m","e","s">>],
    [canonical |-> "results", variant |-> <<"3","."," ","r","e","s","u","l","t","s">>],
    [canonical |-> "results", variant |-> <<"3"," ","r","e","s","u","l","t","s">>],
    [canonical |-> "results", variant |-> <<"4","."," ","r","e","s","u","l","t","s">>],
    [canonical |-> "results", variant |-> <<"4"," ","r","e","s","u","l","t","s">>],
    [canonical |-> "conclusions", variant |-> <<"d","i","s","c","u","s","s","i","o","n"," ","a","n","d"," ","c","o","n","c","l","u","s","i","o","n","s">>],
    [canonical |-> "conclusions", variant |-> <<"c","o","n","c","l","u","s","i","o","n","s">>],
    [canonical |-> "conclusions", variant |-> <<"c","o","n","c","l","u","s","i","o","n">>],
    [canonical |-> "conclusions", variant |-> <<"c","o","n","c","l","u","s","i","o","n"," ","a","n","d"," ","f","u","t","u","r","e"," ","w","o","r","k">>],
    [canonical |-> "conclusions", variant |-> <<"s","u","m","m","a","r","y">>],
    [canonical |-> "conclusions", variant |-> <<"c","o","n","c","l","u","d","i","n","g"," ","r","e","m","a","r","k","s">>],
    [canonical |-> "conclusions", variant |-> <<"f","u","t","u","r","e"," ","w","o","r","k">>],
    [canonical |-> "conclusions", variant |-> <<"d","i","s","c","u","s","s","i","o","n">>],
    [canonical |-> "conclusions", variant |-> <<"5","."," ","c","o","n","c","l","u","s","i","o","n">>],
    [canonical |-> "conclusions", variant |-> <<"5"," ","c","o","n","c","l","u","s","i","o","n">>],
    [canonical |-> "conclusions", variant |-> <<"6","."," ","c","o","n","c","l","u","s","i","o","n">>],
    [canonical |-> "conclusions", variant |-> <<"6"," ","c","o","n","c","l","u","s","i","o","n">>],
    [canonical |-> "references", variant |-> <<"r","e","f","e","r","e","n","c","e","s">>],
    [canonical |-> "references", variant |-> <<"b","i","b","l","i","o","g","r","a","p","h","y">>],
    [canonical |-> "references", variant |-> <<"a","c","k","n","o","w","l","e","d","g","m","e","n","t">>],
    [canonical |-> "references", variant |-> <<"a","c","k","n","o","w","l","e","d","g","e","m","e","n","t">>],
    [canonical |-> "references", variant |-> <<"w","o","r","k","s"," ","c","i","t","e","d">>]
  >>

\* self._skip_patterns
skip_patterns ==
  {<<"d","o","i">>,
   <<"h","t","t","p">>,
   <<"@">>,
   <<"r","e","c","e","i","v","e","d">>,
   <<"r","e","v","i","s","e","d">>,
   <<"a","c","c","e","p","t","e","d">>,
   <<"p","u","b","l","i","s","h","e","d">>,
   <<"l","i","c","e","n","s","e">>,
   <<"c","o","r","r","e","s","p","o","n","d","e","n","c","e">>,
   <<"c","o","p","y","r","i","g","h","t">>}

\* front_matter_keywords of _is_front_matter_line
front_matter_keywords ==
  {<<"d","o","i">>,
   <<"h","t","t","p">>,
   <<"l","i","c","e","n","s","e">>,
   <<"a","c","a","d","e","m","i","c"," ","e","d","i","t","o","r">>,
   <<"r","e","c","e","i","v","e","d">>,
   <<"r","e","v","i","s","e","d">>,
   <<"a","c","c","e","p","t","e","d">>,
   <<"p","u","b","l","i","s","h","e","d">>,
   <<"c","o","r","r","e","s","p","o","n","d","e","n","c","e">>,
   <<"c","o","p","y","r","i","g","h","t">>,
   <<"b","a","s","e","l">>}

\* the value None of a header token
None == "None"

(***************************************************************************)
(* _detect_header_with_content(line_text, line_max_size, page_median_size) *)
(* returns (header_token, remaining_text); the two sizes are never read    *)
(***************************************************************************)
\* the characters of remaining.lstrip(':- \t.')
HeaderSeparators == {":", "-", " ", "\t", "."}

\* next_char in [':', '-', '.', ' ', '\t']
HeaderNextChars == {":", "-", ".", " ", "\t"}

\* Case 1: lower.startswith(variant_lower), something follows the variant and
\* the next character is a separator
Case1Matches(line_text, lower, variant) ==
  /\ StartsWithAt(lower, 1, str_lower(variant))
  /\ Len(variant) < Len(line_text)
  /\ line_text[Len(variant) + 1] \in HeaderNextChars

\* the index after the numbering prefix ^\s*(\d+(\.\d+)*) read from index i
\* (i itself when no digit is there)
RECURSIVE NumberingEnd(_, _)
NumberingEnd(lower, i) ==
  LET j == FirstNotIn(lower, i, DigitSet)
  IN IF j = i THEN i
     ELSE IF j + 1 <= Len(lower) /\ lower[j] = "." /\ IsDigit(lower[j + 1])
       THEN NumberingEnd(lower, j + 1)
       ELSE j

\* \.? read from index n
NumberingDot(lower, n) ==
  IF n <= Len(lower) /\ lower[n] = "." THEN n + 1 ELSE n

\* \s+ read from index d, after a numbering that spans s0..n-1: the index
\* where the variant must begin, 0 when digits or white space are missing
NumberingSpaces(lower, s0, n, d) ==
  IF n > s0 /\ FirstNotIn(lower, d, Whitespace) > d
    THEN FirstNotIn(lower, d, Whitespace)
    ELSE 0

\* (\d+(\.\d+)*)\.?\s+ read from index s0
NumberingFrom(lower, s0, n) ==
  NumberingSpaces(lower, s0, n, NumberingDot(lower, n))

\* Case 2, the part of the pattern in front of the variant:
\* ^\s*(\d+(\.\d+)*)\.?\s+ ; the index where the variant must begin, 0 when
\* the line does not begin like that
numbered_prefix_end(lower) ==
  NumberingFrom(lower, FirstNotIn(lower, 1, Whitespace),
                NumberingEnd(lower, FirstNotIn(lower, 1, Whitespace)))

\* Case 2: re.match(rf"^\s*(\d+(\.\d+)*)\.?\s+{re.escape(variant_lower)}", lower)
\* with the prefix ending at `start`; match.end() (0-based, exclusive) or -1
\* when there is no match
Case2End(lower, start, variant) ==
  IF start > 0 /\ StartsWithAt(lower, start, str_lower(variant))
    THEN start + Len(variant) - 1
    ELSE -1

\* the entries of aliases that Case 1 or Case 2 accepts, in scan order;
\* start is where the numbering prefix of the line ends
matching_aliases(line_text, lower, start, aliases) ==
  SelectSeq(aliases,
            LAMBDA alias : \/ Case1Matches(line_text, lower, alias.variant)
                           \/ Case2End(lower, start, alias.variant) >= 0)

\* remaining = line_text[len(variant):] (Case 1) or line_text[match.end():]
\* (Case 2): the index of its first character
remaining_from(line_text, lower, start, variant) ==
  IF Case1Matches(line_text, lower, variant) THEN Len(variant) + 1
  ELSE Case2End(lower, start, variant) + 1

\* the loops over section_aliases return at the first variant that either
\* case accepts, Case 1 tried before Case 2
first_match(line_text, lower, start, matching) ==
  IF matching = << >> THEN <<None, line_text>>
  ELSE <<matching[1].canonical,
         str_lstrip(SubSeq(line_text,
                           remaining_from(line_text, lower, start, matching[1].variant),
                           Len(line_text)),
                    HeaderSeparators)>>

\* a variant of detect_lower that does not look for the metadata tokens
detect_lower_no_skip(line_text, lower) ==
  IF Len(line_text) = 0 THEN <<None, line_text>>
  ELSE first_match(line_text, lower, numbered_prefix_end(lower),
                   matching_aliases(line_text, lower, numbered_prefix_end(lower),
                                    section_aliases))

\* the body of _detect_header_with_content once lower = line_text.lower()
detect_lower(line_text, lower) ==
  IF Len(line_text) = 0 THEN <<None, line_text>>
  ELSE IF \E skip \in skip_patterns : Contains(lower, skip) THEN <<None, line_text>>
  ELSE first_match(line_text, lower, numbered_prefix_end(lower),
                   matching_aliases(line_text, lower, numbered_prefix_end(lower),
                                    section_aliases))

\* a variant of detect_header_with_content that takes a line for a header
\* only when its font is larger than the page median
detect_header_if_larger(line_text, line_max_size, page_median_size) ==
  IF line_max_size > page_median_size THEN detect_lower(line_text, str_lower(line_text))
  ELSE <<None, line_text>>

detect_header_with_content(line_text, line_max_size, page_median_size) ==
  detect_lower(line_text, str_lower(line_text))

(***************************************************************************)
(* _is_front_matter_line(text)                                             *)
(***************************************************************************)
\* cap_count = sum(1 for w in words if w[0].isupper() and len(w) > 1)
cap_count(words) ==
  Cardinality({i \in 1..Len(words) : IsUpper(words[i][1]) /\ Len(words[i]) > 1})

\* the body of _is_front_matter_line once lower and words are built
front_matter_of(text, lower, words) ==
  IF \E keyword \in front_matter_keywords : Contains(lower, keyword) THEN TRUE
  ELSE IF str_count(text, ",") >= 2 /\ Len(words) <= 8
    THEN cap_count(words) >= Len(words) \div 3
    ELSE FALSE

is_front_matter_line(text) ==
  front_matter_of(text, str_lower(text), str_split(text))

(***************************************************************************)
(* self.text_splitter: RecursiveCharacterTextSplitter(chunk_size,          *)
(* chunk_overlap=overlap, length_function=len, separators=[...],           *)
(* is_separator_regex=False, keep_separator="end"), strip_whitespace left  *)
(* at its default True.  Pieces are spans <<a, b>> of the text t.          *)
(***************************************************************************)
separators ==
  << <<"\n","\n">>, <<"\n">>, <<"."," ">>, <<"!"," ">>, <<"?"," ">>,
     <<";"," ">>, <<":"," ">>, <<","," ">>, <<" ">>, << >> >>

SpanLen(sp) == sp[2] - sp[1] + 1

SpanText(t, sp) == SubSeq(t, sp[1], sp[2])

\* the starts of the matches re.split finds: the occurrences of the separator
\* taken left to right, each one beginning at or after `from`
RECURSIVE NonOverlapping(_, _, _, _)
NonOverlapping(hits, k, from, width) ==
  IF k > Len(hits) THEN << >>
  ELSE IF hits[k] < from THEN NonOverlapping(hits, k + 1, from, width)
  ELSE <<hits[k]>> \o NonOverlapping(hits, k + 1, hits[k] + width, width)

separator_starts(t, a, b, sep) ==
  NonOverlapping(SelectSeq(Indices(a, b - Len(sep) + 1), LAMBDA i : StartsWithAt(t, i, sep)),
                 1, a, Len(sep))

\* _split_text_with_regex(text, separator, keep_separator="end") on t[a..b]:
\* re.split(f"({separator})", text) with every separator glued to the END of
\* the piece before it, and the non-empty pieces kept; list(text) for the
\* empty separator
split_text_with_regex(t, a, b, sep) ==
  IF sep = << >> THEN [k \in 1..(b - a + 1) |-> <<a + k - 1, a + k - 1>>]
  ELSE LET starts == separator_starts(t, a, b, sep)
           n == Len(starts)
           first(k) == IF k = 1 THEN a ELSE starts[k - 1] + Len(sep)
           pieces == [k \in 1..n |-> <<first(k), starts[k] + Len(sep) - 1>>]
       IN IF first(n + 1) <= b THEN Append(pieces, <<first(n + 1), b>>) ELSE pieces

\* the first separator of separators[k:] that is "" or occurs in t[a..b]
\* (the last one when none does)
pick_separator(t, a, b, k) ==
  LET found == SelectSeq(Indices(k, Len(separators)),
                         LAMBDA s : separators[s] = << >> \/ ContainsIn(t, a, b, separators[s]))
  IN IF found = << >> THEN Len(separators) ELSE found[1]

\* TextSplitter._join_docs(docs, ""): the joined pieces as one span, or
\* nothing when the joined text strips to ""
join_docs(t, current_doc) ==
  IF current_doc = << >> THEN << >>
  ELSE LET sp == <<current_doc[1][1], current_doc[Len(current_doc)][2]>>
       IN IF FirstNotIn(t, sp[1], Whitespace) > sp[2] THEN << >> ELSE <<sp>>

\* the while loop of _merge_splits: pop pieces off the front of current_doc
RECURSIVE pop_overlap(_, _, _, _, _)
pop_overlap(current_doc, total, len, chunk_size, chunk_overlap) ==
  IF total > chunk_overlap \/ (total + len > chunk_size /\ total > 0)
    THEN pop_overlap(Tail(current_doc), total - SpanLen(current_doc[1]), len,
                     chunk_size, chunk_overlap)
    ELSE <<current_doc, total>>

\* the for loop of TextSplitter._merge_splits(splits, "") from piece i on
RECURSIVE MergeFrom(_, _, _, _, _, _, _)
MergeFrom(t, splits, i, current_doc, total, chunk_size, chunk_overlap) ==
  IF i > Len(splits) THEN join_docs(t, current_doc)
  ELSE LET len == SpanLen(splits[i])
           flush == total + len > chunk_size /\ Len(current_doc) > 0
           kept == IF flush
                     THEN pop_overlap(current_doc, total, len, chunk_size, chunk_overlap)
                     ELSE <<current_doc, total>>
       IN (IF flush THEN join_docs(t, current_doc) ELSE << >>)
          \o MergeFrom(t, splits, i + 1, Append(kept[1], splits[i]), kept[2] + len,
                       chunk_size, chunk_overlap)

merge_splits(t, splits, chunk_size, chunk_overlap) ==
  MergeFrom(t, splits, 1, << >>, 0, chunk_size, chunk_overlap)

\* RecursiveCharacterTextSplitter._split_text(text, separators) on t[a..b]
\* with the separators from entry k on; SplitLoop is its for loop over the
\* pieces (new_k = 0: new_separators is empty)
RECURSIVE split_text_rec(_, _, _, _, _, _)
RECURSIVE SplitLoop(_, _, _, _, _, _, _)
SplitLoop(t, splits, i, good_splits, new_k, chunk_size, chunk_overlap) ==
  LET merged == IF good_splits = << >> THEN << >>
                ELSE merge_splits(t, good_splits, chunk_size, chunk_overlap)
  IN IF i > Len(splits) THEN merged
     ELSE IF SpanLen(splits[i]) < chunk_size
       THEN SplitLoop(t, splits, i + 1, Append(good_splits, splits[i]), new_k,
                      chunk_size, chunk_overlap)
       ELSE merged
            \o (IF new_k = 0 THEN <<splits[i]>>
                ELSE split_text_rec(t, splits[i][1], splits[i][2], new_k,
                                    chunk_size, chunk_overlap))
            \o SplitLoop(t, splits, i + 1, << >>, new_k, chunk_size, chunk_overlap)

split_text_rec(t, a, b, k, chunk_size, chunk_overlap) ==
  LET s == pick_separator(t, a, b, k)
      found == separators[s] # << >> /\ ContainsIn(t, a, b, separators[s])
      new_k == IF found /\ s < Len(separators) THEN s + 1 ELSE 0
  IN SplitLoop(t, split_text_with_regex(t, a, b, separators[s]), 1, << >>, new_k,
               chunk_size, chunk_overlap)

\* text_splitter.split_text(clean_text): the chunks as spans of t
split_text(t, chunk_size, chunk_overlap) ==
  split_text_rec(t, 1, Len(t), 1, chunk_size, chunk_overlap)

(***************************************************************************)
(* _strip_punct, _is_likely_header_context and _detect_header.  The pass   *)
(* over the lines never calls _detect_header.                              *)
(***************************************************************************)
\* string.punctuation, less the backquote, which a string of this language
\* cannot hold and no line or alias here contains
Punctuation ==
  {"!", "\"", "#", "$", "%", "&", "'", "(", ")", "*", "+", ",", "-", ".", "/", ":",
   ";", "<", "=", ">", "?", "@", "[", "\\", "]", "^", "_", "{", "|", "}", "~"}

\* _strip_punct: s.translate(str.maketrans("", "", string.punctuation))
strip_punct(s) == SelectSeq(s, LAMBDA c : c \notin Punctuation)

\* norm = self._strip_punct(line_text).lower()
normalized(s) == str_lower(strip_punct(s))

\* self._header_re = ^\s*(\d+(\.\d+)*)\.?\s*(?P<h>.+)$ : the index after
\* the numbering, the dot and the white space when each takes all it can
header_re_prefix_end(text) ==
  FirstNotIn(text,
             NumberingDot(text, NumberingEnd(text, FirstNotIn(text, 1, Whitespace))),
             Whitespace)

\* the last index of the group h: $ matches at the end of the text and in
\* front of a line break that ends it
header_re_h_end(text) ==
  IF Len(text) > 0 /\ text[Len(text)] = "\n" THEN Len(text) - 1 ELSE Len(text)

\* the least index the group h can begin at: .+ takes no line break, so h
\* lies behind the last line break before its end
header_re_h_least(text) ==
  1 + CHOOSE j \in 0..header_re_h_end(text) :
        /\ j = 0 \/ text[j] = "\n"
        /\ \A k \in (j + 1)..header_re_h_end(text) : text[k] # "\n"

\* the index the group h begins at.  The prefix gives back what it took, one
\* character at a time, until .+ has a character to take: h begins where the
\* prefix ends when it takes all it can, or else at the last index of h
header_re_h_start(text) ==
  IF header_re_prefix_end(text) <= header_re_h_end(text)
    THEN header_re_prefix_end(text)
    ELSE header_re_h_end(text)

\* self._header_re.match(text): a digit opens the text behind its white
\* space, the prefix keeps that digit, and h has no line break in it
header_re_matches(text) ==
  /\ FirstNotIn(text, 1, Whitespace) <= Len(text)
  /\ IsDigit(text[FirstNotIn(text, 1, Whitespace)])
  /\ header_re_h_start(text) > FirstNotIn(text, 1, Whitespace)
  /\ header_re_h_start(text) >= header_re_h_least(text)

\* match.group("h")
header_re_h(text) == SubSeq(text, header_re_h_start(text), header_re_h_end(text))

\* sum(1 for word in words if word[0].isupper())
upper_count(words) == Cardinality({i \in 1..Len(words) : IsUpper(words[i][1])})

\* text.strip().endswith(':')
ends_with_colon(stripped) == Len(stripped) > 0 /\ stripped[Len(stripped)] = ":"

\* _is_likely_header_context(text, font_size, median_size);
\* font_size >= median_size * 1.3 and cap_ratio >= 0.8 in whole numbers
is_likely_header_context(text, font_size, median_size) ==
  \/ Len(str_split(text)) <= 3
  \/ header_re_matches(text)
  \/ (median_size > 0 /\ 10 * font_size >= 13 * median_size)
  \/ (Len(str_split(text)) <= 6
      /\ 5 * upper_count(str_split(text)) >= 4 * Len(str_split(text)))
  \/ ends_with_colon(str_strip(text))

\* the canonical section of the first alias a loop over section_aliases
\* accepts, or None
first_canonical(matching) ==
  IF matching = << >> THEN None ELSE matching[1].canonical

\* if norm == variant_norm or line_text.strip().lower() == variant.lower()
exact_matches(line_text, norm, aliases) ==
  SelectSeq(aliases,
            LAMBDA alias : \/ norm = normalized(alias.variant)
                           \/ str_lower(str_strip(line_text)) = str_lower(alias.variant))

\* outside a header-like context: if norm == variant.lower()
strict_matches(norm, aliases) ==
  SelectSeq(aliases, LAMBDA alias : norm = str_lower(alias.variant))

\* numbered headers: if norm == variant_norm or norm.startswith(variant_norm)
numbered_matches(norm, aliases) ==
  SelectSeq(aliases, LAMBDA alias : StartsWithAt(norm, 1, normalized(alias.variant)))

\* in a header-like context: exact, or norm.startswith(variant_norm + " ")
\* and len(norm.split()) <= len(variant_norm.split()) + 3
close_matches(norm, aliases) ==
  SelectSeq(aliases,
            LAMBDA alias :
              \/ norm = normalized(alias.variant)
              \/ /\ StartsWithAt(norm, 1, normalized(alias.variant) \o <<" ">>)
                 /\ Len(str_split(norm)) <= Len(str_split(normalized(alias.variant))) + 3)

\* _detect_header from "First check if this text appears in a header-like
\* context" on
detect_in_context(line_text, line_max_size, page_median_size) ==
  IF ~is_likely_header_context(line_text, line_max_size, page_median_size)
    THEN first_canonical(strict_matches(normalized(line_text), section_aliases))
  ELSE IF header_re_matches(line_text)
    THEN first_canonical(numbered_matches(strip_punct(str_lower(header_re_h(line_text))),
                                          section_aliases))
  ELSE first_canonical(close_matches(normalized(line_text), section_aliases))

\* _detect_header(line_text, line_max_size, page_median_size)
detect_header(line_text, line_max_size, page_median_size) ==
  IF Len(line_text) = 0 THEN None
  ELSE IF \E skip \in skip_patterns : Contains(str_lower(line_text), skip) THEN None
  ELSE IF Len(line_text) > 150 \/ Len(str_split(line_text)) > 20 THEN None
  ELSE IF exact_matches(line_text, normalized(line_text), section_aliases) # << >>
    THEN first_canonical(exact_matches(line_text, normalized(line_text), section_aliases))
  ELSE detect_in_context(line_text, line_max_size, page_median_size)

(***************************************************************************)
(* _chunk_text(text, start_page) and _chunk_text_fallback(text, start_page)*)
(***************************************************************************)
\* raw_chunks keeps a piece only if len(chunk.strip()) > 50
MinChunkLen == 50

\* "Each marker is ~10 chars": the width subtracted per marker in front
MarkerWidth == 10

\* sp.strip() as a span of t (sp holds a non-whitespace character)
stripped_span(t, sp) ==
  <<FirstNotIn(t, sp[1], Whitespace), LastNotIn(t, sp[2], Whitespace)>>

\* a variant of chunk_page that takes the page of the first marker behind the
\* offset, start_page when there is none
chunk_page_next_marker(positions, start_page, char_offset) ==
  LET adjusted_pos(k) ==
        positions[k][1]
          - Cardinality({j \in 1..Len(positions) : positions[j][1] < positions[k][1]})
              * MarkerWidth
      hits == {k \in 1..Len(positions) : adjusted_pos(k) > char_offset}
  IN IF hits = {} THEN start_page
     ELSE positions[CHOOSE k \in hits : \A j \in hits : k <= j][2]

\* for pos, page in page_positions: adjusted_pos = pos - len([p for p in
\* page_positions if p[0] < pos]) * 10; if adjusted_pos <= char_offset:
\* chunk_page = page     (the last entry that passes the test wins)
chunk_page(positions, start_page, char_offset) ==
  LET adjusted_pos(k) ==
        positions[k][1]
          - Cardinality({j \in 1..Len(positions) : positions[j][1] < positions[k][1]})
              * MarkerWidth
      hits == {k \in 1..Len(positions) : adjusted_pos(k) <= char_offset}
  IN IF hits = {} THEN start_page
     ELSE positions[CHOOSE k \in hits : \A j \in hits : j <= k][2]

\* raw_chunks = [chunk.strip() for chunk in raw_chunks if len(chunk.strip()) > 50],
\* as spans of the clean text
strip_spans(clean, raw) ==
  [i \in 1..Len(raw) |-> stripped_span(clean, raw[i])]

long_enough(sp) == SpanLen(sp) > MinChunkLen

kept_spans(clean, chunk_size, overlap) ==
  SelectSeq(strip_spans(clean, split_text(clean, chunk_size, overlap)), long_enough)

\* the page-mapping loop of _chunk_text from chunk i on
RECURSIVE MapPagesFrom(_, _, _, _, _)
MapPagesFrom(raw_chunks, i, char_offset, positions, start_page) ==
  IF i > Len(raw_chunks) THEN << >>
  ELSE <<[text |-> raw_chunks[i],
          page |-> chunk_page(positions, start_page, char_offset)]>>
       \o MapPagesFrom(raw_chunks, i + 1, char_offset + Len(raw_chunks[i]) + 1,
                       positions, start_page)

\* the texts of the kept pieces
span_texts(clean, spans) ==
  [i \in 1..Len(spans) |-> SpanText(clean, spans[i])]

\* the try block of _chunk_text after clean_text and page_positions are built
primary_chunks(clean, positions, start_page, chunk_size, overlap) ==
  MapPagesFrom(span_texts(clean, kept_spans(clean, chunk_size, overlap)),
               1, 0, positions, start_page)

\* the try block of _chunk_text
chunk_text_primary(text, start_page, chunk_size, overlap) ==
  primary_chunks(clean_text(text), page_positions(text), start_page,
                 chunk_size, overlap)

\* sentences = re.split(r"(?<=[.!?])\s+", clean_text), as spans of t
SentenceEnd == {".", "!", "?"}

sentence_spans(t) ==
  LET breaks == SelectSeq(Indices(2, Len(t)),
                          LAMBDA i : IsSpace(t[i]) /\ t[i - 1] \in SentenceEnd)
      first(k) == IF k = 1 THEN 1 ELSE FirstNotIn(t, breaks[k - 1], Whitespace)
  IN [k \in 1..(Len(breaks) + 1) |->
        <<first(k), IF k <= Len(breaks) THEN breaks[k] - 1 ELSE Len(t)>>]

\* the for loop of _chunk_text_fallback from sentence i on, and the final
\* "if current"; current is a span of t (of length 0 for "")
RECURSIVE FallbackFrom(_, _, _, _, _, _, _, _)
FallbackFrom(t, sentences, i, current, char_offset, positions, start_page, chunk_size) ==
  LET emitted == <<[span |-> current,
                    page |-> chunk_page(positions, start_page, char_offset)]>>
  IN IF i > Len(sentences)
       THEN IF SpanLen(current) > 0 THEN emitted ELSE << >>
     ELSE IF SpanLen(current) + SpanLen(sentences[i]) > chunk_size /\ SpanLen(current) > 0
       THEN emitted \o FallbackFrom(t, sentences, i + 1, sentences[i],
                                    char_offset + SpanLen(current),
                                    positions, start_page, chunk_size)
     ELSE FallbackFrom(t, sentences, i + 1,
                       IF SpanLen(current) > 0 THEN <<current[1], sentences[i][2]>>
                       ELSE sentences[i],
                       char_offset, positions, start_page, chunk_size)

\* the chunks of _chunk_text_fallback before the overlap is added, as spans
\* of the clean text
fallback_bodies(clean, positions, start_page, chunk_size) ==
  FallbackFrom(clean, sentence_spans(clean), 1, <<1, 0>>, 0,
               positions, start_page, chunk_size)

\* chunks.append({"text": current.strip(), "page": chunk_page})
fallback_chunks(clean, bodies) ==
  [i \in 1..Len(bodies) |->
     [text |-> str_strip(SpanText(clean, bodies[i].span)),
      page |-> bodies[i].page]]

\* prev_text[-self.overlap:].lstrip()
overlap_text(prev_text, overlap) ==
  str_lstrip(SubSeq(prev_text,
                    IF Len(prev_text) > overlap THEN Len(prev_text) - overlap + 1 ELSE 1,
                    Len(prev_text)),
             Whitespace)

\* chunks[i]['text'] = f"{overlap_text} {chunks[i]['text']}" for i = 1, 2, ...;
\* prev_text is chunks[i-1]['text'] as already rewritten
RECURSIVE OverlapFrom(_, _, _, _)
OverlapFrom(chunks, i, prev_text, overlap) ==
  IF i > Len(chunks) THEN << >>
  ELSE LET new_text == overlap_text(prev_text, overlap) \o <<" ">> \o chunks[i].text
       IN <<[text |-> new_text, page |-> chunks[i].page]>>
          \o OverlapFrom(chunks, i + 1, new_text, overlap)

\* if self.overlap > 0 and len(chunks) > 1: the overlap loop
add_overlap(chunks, overlap) ==
  IF overlap > 0 /\ Len(chunks) > 1
    THEN <<chunks[1]>> \o OverlapFrom(chunks, 2, chunks[1].text, overlap)
    ELSE chunks

\* _chunk_text_fallback after clean_text and page_positions are built
fallback_of(clean, positions, start_page, chunk_size, overlap) ==
  add_overlap(fallback_chunks(clean,
                              fallback_bodies(clean, positions, start_page, chunk_size)),
              overlap)

chunk_text_fallback(text, start_page, chunk_size, overlap) ==
  fallback_of(clean_text(text), page_positions(text), start_page,
              chunk_size, overlap)

\* a variant of chunk_text that swallows the failure and returns no chunk
chunk_text_no_fallback(text, start_page, chunk_size, overlap, ok) ==
  IF ok THEN chunk_text_primary(text, start_page, chunk_size, overlap)
  ELSE << >>

\* _chunk_text: the try block, or the fallback when the splitter raised
chunk_text(text, start_page, chunk_size, overlap, ok) ==
  IF ok THEN chunk_text_primary(text, start_page, chunk_size, overlap)
  ELSE chunk_text_fallback(text, start_page, chunk_size, overlap)

(***************************************************************************)
(* The layout lines a document is made of.  A line is its list of spans    *)
(* (text, font size); the texts below are the span texts.                  *)
(***************************************************************************)
\* 'Abstract: Blockchain is a peer-to-peer electronic cash system.'
AbstractInline == <<"A","b","s","t","r","a","c","t",":"," ","B","l","o","c","k","c","h","a","i",
    "n"," ","i","s"," ","a"," ","p","e","e","r","-","t","o","-","p","e","e","r"," ","e","l","e",
    "c","t","r","o","n","i","c"," ","c","a","s","h"," ","s","y","s","t","e","m",".">>

\* '2.1 Research Methodology'
NumberedHeader == <<"2",".","1"," ","R","e","s","e","a","r","c","h"," ","M","e","t","h","o","d",
    "o","l","o","g","y">>

\* 'Each node stores the full shared ledger. No bank here.'
BodyTwoSentences == <<"E","a","c","h"," ","n","o","d","e"," ","s","t","o","r","e","s"," ","t",
    "h","e"," ","f","u","l","l"," ","s","h","a","r","e","d"," ","l","e","d","g","e","r","."," ",
    "N","o"," ","b","a","n","k"," ","h","e","r","e",".">>

\* 'Miners race to seal a block [1]; the longest chain wins, always.'
BodyOneSentence == <<"M","i","n","e","r","s"," ","r","a","c","e"," ","t","o"," ","s","e","a",
    "l"," ","a"," ","b","l","o","c","k"," ","[","1","]",";"," ","t","h","e"," ","l","o","n","g",
    "e","s","t"," ","c","h","a","i","n"," ","w","i","n","s",","," ","a","l","w","a","y","s",
    ".">>

\* 'John Smith, Jane Doe, Robert Lee'
AuthorLine == <<"J","o","h","n"," ","S","m","i","t","h",","," ","J","a","n","e"," ","D","o","e",
    ","," ","R","o","b","e","r","t"," ","L","e","e">>

\* 'Materials and Methods'
BareAlias == <<"M","a","t","e","r","i","a","l","s"," ","a","n","d"," ","M","e","t","h","o","d",
    "s">>

\* 'Conclusion: see above'
ShortHeader == <<"C","o","n","c","l","u","s","i","o","n",":"," ","s","e","e"," ","a","b","o",
    "v","e">>

\* 'Results of the run on the set of all the data we had in the lab at the end of
\* year two.' (22 words)
LongParagraph == <<"R","e","s","u","l","t","s"," ","o","f"," ","t","h","e"," ","r","u","n"," ",
    "o","n"," ","t","h","e"," ","s","e","t"," ","o","f"," ","a","l","l"," ","t","h","e"," ","d",
    "a","t","a"," ","w","e"," ","h","a","d"," ","i","n"," ","t","h","e"," ","l","a","b"," ","a",
    "t"," ","t","h","e"," ","e","n","d"," ","o","f"," ","y","e","a","r"," ","t","w","o",".">>

\* ' '
BlankSpan == <<" ">>

\* the section names as text, for f"[SECTION: {name}] {text}"
SectionNameText ==
  [preamble |-> <<"p","r","e","a","m","b","l","e">>,
   abstract |-> <<"a","b","s","t","r","a","c","t">>,
   introduction |-> <<"i","n","t","r","o","d","u","c","t","i","o","n">>,
   methodology |-> <<"m","e","t","h","o","d","o","l","o","g","y">>,
   results |-> <<"r","e","s","u","l","t","s">>,
   conclusions |-> <<"c","o","n","c","l","u","s","i","o","n","s">>,
   references |-> <<"r","e","f","e","r","e","n","c","e","s">>]

\* "[SECTION: "
SectionOpen == <<"[","S","E","C","T","I","O","N",":"," ">>

\* an alias followed by inline content that holds the metadata token doi
SkipLine == <<"R","e","s","u","l","t","s",":"," ","d","o","i"," ","1","0",".","1","/","x">>

\* a header line of exactly 50 characters
ExactFifty == <<"I","n","t","r","o","d","u","c","t","i","o","n",":"," ","e","a","c","h"," ","n",
                "o","d","e"," ","k","e","e","p","s"," ","t","h","e"," ","w","h","o","l","e"," ",
                "l","e","d","g","e","r"," ","t","o","o">>

\* a real abstract of 15 characters
ShortAbstract == <<"A","b","s","t","r","a","c","t",":"," ","t","i","n","y",".">>

\* a header line of 22 characters: 31 with its page tag
HeaderOverMin == <<"C","o","n","c","l","u","s","i","o","n",":"," ","s","e","e"," ","a","b","o",
                   "v","e",".">>

\* a sentence of exactly ChunkSize characters, its period counted, with a
\* short sentence behind it
SentenceOfChunkSize == <<"E","v","e","r","y"," ","n","o","d","e"," ","k","e","e","p","s"," ",
                         "a"," ","f","u","l","l"," ","c","o","p","y"," ","o","f"," ","t","h",
                         "e"," ","c","h","a","i","n"," ","a","n","d"," ","c","h","e","c","k",
                         "s"," ","e","a","c","h"," ","b","l","o","c","k","."," ","S","o"," ",
                         "i","t"," ","i","s",".">>

\* span texts for _merge_spans: a word broken by a hyphen, its second half,
\* a fragment inside white space, and a hyphen alone
HyphenFragment == <<"b","l","o","c","k","-">>

PlainFragment == <<"c","h","a","i","n">>

PaddedFragment == <<" ","o","f"," ">>

LoneHyphen == <<"-">>

\* span font sizes (points)
BodySize == 10

HeaderSize == 14

Span(text, size) == [text |-> text, size |-> size]

\* the lines a page can hold
LineTable ==
  << <<Span(AbstractInline, BodySize)>>,
     <<Span(NumberedHeader, HeaderSize)>>,
     <<Span(BodyTwoSentences, BodySize)>>,
     <<Span(BodyOneSentence, BodySize)>>,
     <<Span(AuthorLine, BodySize)>>,
     <<Span(BlankSpan, BodySize)>> >>

\* lines that read like headers, or that are short enough for their section
\* to be dropped
HeaderLineTable ==
  << <<Span(BareAlias, HeaderSize)>>,
     <<Span(ShortHeader, BodySize)>>,
     <<Span(LongParagraph, BodySize)>>,
     <<Span(AuthorLine, BodySize)>>,
     <<Span(BlankSpan, BodySize)>> >>

\* lines at the limits of the length tests, a sentence at the limit of the
\* chunk size, and a metadata line
EdgeLineTable ==
  << <<Span(SkipLine, HeaderSize)>>,
     <<Span(ExactFifty, BodySize)>>,
     <<Span(ShortAbstract, BodySize)>>,
     <<Span(HeaderOverMin, BodySize)>>,
     <<Span(SentenceOfChunkSize, BodySize)>>,
     <<Span(ShortHeader, BodySize)>>,
     <<Span(AuthorLine, BodySize)>>,
     <<Span(BlankSpan, BodySize)>> >>

\* the page median font sizes a page can have
MedianSizes == {BodySize, HeaderSize}

(***************************************************************************)
(* Bounds of the model                                                     *)
(***************************************************************************)
\* layout lines per document
MaxLines == 3

\* DocumentProcessor(chunk_size, overlap) as constructed
ChunkSize == 64

Overlap == 16

\* the pages that carry text lines (the pages between them are blank), and
\* the page counts of the documents
TextPages == {1, 2, 10}

PageCounts == {2, 10}

(***************************************************************************)
(* _merge_spans(spans) -> (text, max_size)                                 *)
(***************************************************************************)
RECURSIVE MergeSpansFrom(_, _, _, _)
MergeSpansFrom(spans, i, text, max_size) ==
  IF i > Len(spans) THEN <<str_strip(text), max_size>>
  ELSE LET s_text == str_strip(spans[i].text)
           size == spans[i].size
           new_max == IF size > max_size THEN size ELSE max_size
       IN IF Len(s_text) = 0 THEN MergeSpansFrom(spans, i + 1, text, new_max)
          ELSE IF Len(text) > 0 /\ text[Len(text)] = "-"
            THEN MergeSpansFrom(spans, i + 1, SubSeq(text, 1, Len(text) - 1) \o s_text, new_max)
          ELSE MergeSpansFrom(spans, i + 1,
                              text \o (IF Len(text) > 0 THEN <<" ">> ELSE << >>) \o s_text,
                              new_max)

\* a variant of _merge_spans without the word-break repair: a fragment is
\* always appended behind a space
RECURSIVE MergeSpansPlain(_, _, _, _)
MergeSpansPlain(spans, i, text, max_size) ==
  IF i > Len(spans) THEN <<str_strip(text), max_size>>
  ELSE LET s_text == str_strip(spans[i].text)
           size == spans[i].size
           new_max == IF size > max_size THEN size ELSE max_size
       IN IF Len(s_text) = 0 THEN MergeSpansPlain(spans, i + 1, text, new_max)
          ELSE MergeSpansPlain(spans, i + 1,
                               text \o (IF Len(text) > 0 THEN <<" ">> ELSE << >>) \o s_text,
                               new_max)

merge_spans_plain(spans) == MergeSpansPlain(spans, 1, << >>, 0)

merge_spans(spans) == MergeSpansFrom(spans, 1, << >>, 0)

(***************************************************************************)
(* The state of one DocumentProcessor and of one _process_pdf_sync call    *)
(***************************************************************************)
VARIABLES
  chunk_size,            \* self.chunk_size
  overlap,               \* self.overlap
  calls,                 \* the calls of process_pdf made on this instance so far
  splitter_ok,           \* FALSE: text_splitter.split_text raises in this call
  pc,                    \* "scan": in the loop over pages and lines; "done": returned;
                         \* "raised": ended by an exception; "listed": the result
                         \* was passed to get_chunks_with_metadata
  page_count,            \* doc.page_count
  page_index,            \* the loop variable of enumerate(doc)
  sections,              \* the dict sections, in insertion order
  current_section,
  total_text_extracted,
  nlines,                \* layout lines visited so far, skipped ones included
  line,                  \* the line visited last: text, page_no, header_token and
                         \* remaining_text as the loop body holds them
  visited,               \* the non-empty lines visited, with the section current after each
  result,                \* the returned dict
  raised,                \* the exception process_pdf raised to its caller, or None
  chunks_with_metadata,  \* what get_chunks_with_metadata(result) returned
  peer,                  \* the locals of a second call that runs in another worker
                         \* thread while this one is scheduled
  line_spans,            \* the spans of one layout line, as handed to _merge_spans
  merged_line            \* what _merge_spans(spans) returned, or NoMerged

vars ==
  <<chunk_size, overlap, calls, splitter_ok, pc, page_count, page_index, sections,
    current_section, total_text_extracted, nlines, line, visited, result, raised,
    chunks_with_metadata, peer, line_spans, merged_line>>

\* a page number that forgets the "+ 1" (a variant of PageNo)
page_no_zero_based(index) == index

\* page_no = page_index + 1
PageNo(index) == index + 1

HasSection(secs, name) == \E i \in 1..Len(secs) : secs[i].name = name

SectionOf(secs, name) == secs[CHOOSE i \in 1..Len(secs) : secs[i].name = name]

\* a variant of new_sections that goes on with the dict of the call before
sections_kept(previous) ==
  IF Len(previous) = 0 THEN <<[name |-> "preamble", text |-> << >>, start_page |-> 1]>>
  ELSE previous

\* sections = {"preamble": {"text": [], "start_page": 1}}: a local of the call,
\* whatever dict a call before this one built (previous)
new_sections(previous) == <<[name |-> "preamble", text |-> << >>, start_page |-> 1]>>

\* a variant of ensure_section that starts the buffer over when the section
\* is already there
ensure_section_reset(secs, name, page_no) ==
  IF HasSection(secs, name)
    THEN [i \in 1..Len(secs) |->
            IF secs[i].name = name THEN [secs[i] EXCEPT !.text = << >>] ELSE secs[i]]
  ELSE Append(secs, [name |-> name, text |-> << >>, start_page |-> page_no])

\* a variant of ensure_section that records page 1 for every new section
ensure_section_page_one(secs, name, page_no) ==
  IF HasSection(secs, name) THEN secs
  ELSE Append(secs, [name |-> name, text |-> << >>, start_page |-> 1])

\* if current_section not in sections:
\*     sections[current_section] = {"text": [], "start_page": page_no}
ensure_section(secs, name, page_no) ==
  IF HasSection(secs, name) THEN secs
  ELSE Append(secs, [name |-> name, text |-> << >>, start_page |-> page_no])

\* a variant of append_text that puts the entry in front of the buffer
insert_text_first(secs, name, entry) ==
  [i \in 1..Len(secs) |->
     IF secs[i].name = name THEN [secs[i] EXCEPT !.text = <<entry>> \o @] ELSE secs[i]]

\* sections[name]["text"].append(entry)
append_text(secs, name, entry) ==
  [i \in 1..Len(secs) |->
     IF secs[i].name = name THEN [secs[i] EXCEPT !.text = Append(@, entry)] ELSE secs[i]]

\* a variant of header_content that keeps only what follows the alias
remainder_only(text, remaining_text) == remaining_text

\* what the header branch appends: "Add the full line (header + content if any)"
header_content(text, remaining_text) == text

\* a variant of front_matter_branch that does not look at the current section
front_matter_anywhere(current, text) == is_front_matter_line(text)

\* if current_section == "preamble" and self._is_front_matter_line(text)
front_matter_branch(current, text) ==
  current = "preamble" /\ is_front_matter_line(text)

\* the header branch: current_section = header_token; create the section if
\* it is not there; append the tagged line
header_step(secs, text, page_no, detected) ==
  append_text(ensure_section(secs, detected[1], page_no), detected[1],
              page_tagged(page_no, header_content(text, detected[2])))

\* a variant of front_matter_step that appends the line without its page tag
front_matter_step_untagged(secs, text, page_no) ==
  append_text(secs, "preamble", text)

\* the front-matter branch: sections["preamble"]["text"].append(...)
front_matter_step(secs, text, page_no) ==
  append_text(secs, "preamble", page_tagged(page_no, text))

\* the regular-content branch
content_step(secs, current, text, page_no) ==
  append_text(ensure_section(secs, current, page_no), current, page_tagged(page_no, text))

NoLine == [text |-> << >>, page |-> 0, header_token |-> None, remaining_text |-> << >>]

NoResult == [metadata |-> [page_count |-> 0], sections |-> << >>,
             stats |-> [total_text_extracted |-> 0, total_text_in_sections |-> 0,
                        data_loss_percentage |-> 0]]

\* no second call is in flight
NoPeer == [pc |-> "idle"]

\* _merge_spans has not returned
NoMerged == <<<< >>, -1>>

Init ==
  /\ chunk_size = ChunkSize
  /\ overlap = Overlap
  /\ calls = 1
  /\ splitter_ok \in BOOLEAN
  /\ pc = "scan"
  /\ page_count \in PageCounts
  /\ page_index = 0
  /\ sections = new_sections(<< >>)
  /\ current_section = "preamble"
  /\ total_text_extracted = 0
  /\ nlines = 0
  /\ line = NoLine
  /\ visited = << >>
  /\ result = NoResult
  /\ raised = None
  /\ chunks_with_metadata = << >>
  /\ peer = NoPeer
  /\ line_spans = << >>
  /\ merged_line = NoMerged

\* for every line of LineTable and page median size, what the loop body
\* computes before it branches: text, max_size, and
\* header_token, remaining_text = self._detect_header_with_content(...)
scanned_line(text, max_size) ==
  [text |-> text,
   max_size |-> max_size,
   detected |-> [m \in MedianSizes |-> detect_header_with_content(text, max_size, m)]]

\* text, max_size = self._merge_spans(spans); text = text.strip()
scanned_spans(merged) == scanned_line(str_strip(merged[1]), merged[2])

Layout == [k \in 1..Len(LineTable) |-> scanned_spans(merge_spans(LineTable[k]))]

HeaderLayout ==
  [k \in 1..Len(HeaderLineTable) |-> scanned_spans(merge_spans(HeaderLineTable[k]))]

EdgeLayout ==
  [k \in 1..Len(EdgeLineTable) |-> scanned_spans(merge_spans(EdgeLineTable[k]))]

\* header_token, remaining_text of the line of a table that reads `text`
detected_in(table, text) ==
  table[CHOOSE k \in 1..Len(table) : table[k].text = text].detected[BodySize]

\* header_token, remaining_text of a line of LineTable, as Layout holds them
layout_detected(text) == detected_in(Layout, text)

\* if not text: continue
SkipEmptyLine(scanned) ==
  /\ pc = "scan"
  /\ nlines < MaxLines
  /\ Len(scanned.text) = 0
  /\ nlines' = nlines + 1
  /\ UNCHANGED <<chunk_size, overlap, calls, splitter_ok, pc, page_count, page_index,
                 sections, current_section, total_text_extracted, line, visited, result,
                 chunks_with_metadata, raised, peer,
                 line_spans, merged_line>>

\* what every branch of the loop body shares
Visit(text, detected, new_current, new_sections_value) ==
  /\ nlines' = nlines + 1
  /\ total_text_extracted' = total_text_extracted + Len(text)
  /\ current_section' = new_current
  /\ sections' = new_sections_value
  /\ line' = [text |-> text, page |-> PageNo(page_index),
              header_token |-> detected[1], remaining_text |-> detected[2]]
  /\ visited' = Append(visited, [text |-> text, page |-> PageNo(page_index),
                                 section |-> new_current])
  /\ UNCHANGED <<chunk_size, overlap, calls, splitter_ok, pc, page_count, page_index,
                 result,
                 chunks_with_metadata, raised, peer,
                 line_spans, merged_line>>

\* if header_token: ... continue
VisitHeader(scanned, page_median_size) ==
  /\ pc = "scan"
  /\ nlines < MaxLines
  /\ LET text == scanned.text
         detected == scanned.detected[page_median_size]
     IN /\ Len(text) > 0
        /\ detected[1] # None
        /\ Visit(text, detected, detected[1],
                 header_step(sections, text, PageNo(page_index), detected))

\* Front matter handling: appended to preamble
VisitFrontMatter(scanned, page_median_size) ==
  /\ pc = "scan"
  /\ nlines < MaxLines
  /\ LET text == scanned.text
         detected == scanned.detected[page_median_size]
     IN /\ Len(text) > 0
        /\ detected[1] = None
        /\ front_matter_branch(current_section, text)
        /\ Visit(text, detected, current_section,
                 front_matter_step(sections, text, PageNo(page_index)))

\* Regular content
VisitContent(scanned, page_median_size) ==
  /\ pc = "scan"
  /\ nlines < MaxLines
  /\ LET text == scanned.text
         detected == scanned.detected[page_median_size]
     IN /\ Len(text) > 0
        /\ detected[1] = None
        /\ ~front_matter_branch(current_section, text)
        /\ Visit(text, detected, current_section,
                 content_step(sections, current_section, text, PageNo(page_index)))

\* the loop reaches the next page that carries text (or the first one)
NextPage(p) ==
  /\ pc = "scan"
  /\ p > PageNo(page_index)
  /\ p <= page_count
  /\ page_index' = p - 1
  /\ UNCHANGED <<chunk_size, overlap, calls, splitter_ok, pc, page_count, sections,
                 current_section, total_text_extracted, nlines, line, visited, result,
                 chunks_with_metadata, raised, peer,
                 line_spans, merged_line>>

(***************************************************************************)
(* After the pass: "Process sections and track uncategorized content"      *)
(***************************************************************************)
\* a section of at most this many raw characters is dropped
MinSectionLen == 30

\* uncategorized content is kept only if longer than this
MinUnknownLen == 100

\* "preview": joined[:250]
PreviewLen == 250

RECURSIVE SumLen(_)
SumLen(items) == IF Len(items) = 0 THEN 0 ELSE Len(Head(items)) + SumLen(Tail(items))

\* " ".join(content["text"])
joined_text(sec) == JoinSpace(sec.text)

\* a variant of is_dropped that keeps a section of exactly MinSectionLen characters
is_dropped_below(sec) ==
  Len(joined_text(sec)) < MinSectionLen /\ sec.name \notin {"abstract", "introduction"}

\* if len(joined) <= 30 and name not in ["abstract", "introduction"]
is_dropped(sec) ==
  Len(joined_text(sec)) <= MinSectionLen /\ sec.name \notin {"abstract", "introduction"}

\* joined[:250]
preview_of(joined) ==
  SubSeq(joined, 1, IF Len(joined) < PreviewLen THEN Len(joined) ELSE PreviewLen)

\* chunk_texts = [c["text"] for c in chunks_with_pages]
chunk_texts_of(chunks_with_pages) ==
  [i \in 1..Len(chunks_with_pages) |-> chunks_with_pages[i].text]

\* sum(len(c) for c in chunk_texts) // len(chunk_texts) if chunk_texts else 0
avg_chunk_size_of(chunk_texts) ==
  IF Len(chunk_texts) > 0 THEN SumLen(chunk_texts) \div Len(chunk_texts) ELSE 0

\* the dict stored in processed_sections[name]
section_entry(sec, joined, chunks_with_pages) ==
  [name |-> sec.name,
   chunks |-> chunk_texts_of(chunks_with_pages),
   chunk_count |-> Len(chunks_with_pages),
   start_page |-> sec.start_page,
   preview |-> preview_of(joined),
   total_length |-> Len(joined),
   avg_chunk_size |-> avg_chunk_size_of(chunk_texts_of(chunks_with_pages)),
   chunks_with_pages |-> chunks_with_pages]

\* chunks_with_pages = self._chunk_text(joined, start_page)
chunked_section(sec, joined, size, over, ok) ==
  section_entry(sec, joined, chunk_text(joined, sec.start_page, size, over, ok))

\* processed_sections[name] = {...}
processed_section(sec, size, over, ok) ==
  chunked_section(sec, str_strip(collapse_whitespace(joined_text(sec))),
                  size, over, ok)

\* " ".join([f"[SECTION: {name}] {text}" for name, text in uncategorized_content])
uncategorized_text(secs) ==
  LET dropped == SelectSeq(secs, is_dropped)
  IN JoinSpace([i \in 1..Len(dropped) |->
                  SectionOpen \o SectionNameText[dropped[i].name] \o <<"]", " ">>
                    \o joined_text(dropped[i])])

\* processed_sections["unknown"] = {...}: "chunks" holds the dicts that
\* _chunk_text returns, so len(c) is 2 for each of them
unknown_entry(text, chunks) ==
  [name |-> "unknown",
   chunks |-> chunks,
   chunk_count |-> Len(chunks),
   start_page |-> 1,
   preview |-> preview_of(text),
   total_length |-> Len(text),
   avg_chunk_size |-> IF Len(chunks) > 0 THEN (2 * Len(chunks)) \div Len(chunks) ELSE 0]

\* uncategorized_chunks = self._chunk_text(uncategorized_text, 1)
unknown_of(text, size, over, ok) ==
  unknown_entry(text, chunk_text(text, 1, size, over, ok))

unknown_section(secs, size, over, ok) ==
  unknown_of(uncategorized_text(secs), size, over, ok)

processed_sections(secs, size, over, ok) ==
  LET retained == SelectSeq(secs, LAMBDA sec : ~is_dropped(sec))
      dropped == SelectSeq(secs, is_dropped)
  IN [i \in 1..Len(retained) |-> processed_section(retained[i], size, over, ok)]
     \o (IF Len(dropped) > 0 /\ Len(uncategorized_text(secs)) > MinUnknownLen
           THEN <<unknown_section(secs, size, over, ok)>> ELSE << >>)

\* total_text_in_sections += len(joined), for every section
text_in_sections(secs) == SumLen([i \in 1..Len(secs) |-> joined_text(secs[i])])

(***************************************************************************)
(* data_loss_pct is a C double: (a / b) * 100 is two operations, each       *)
(* rounded to the nearest double, and round(data_loss_pct, 2) rounds the   *)
(* double that came out, not the exact quotient.  A double is kept as its  *)
(* magnitude [m |-> a natural number of at most Precision binary digits    *)
(* (or 2^Precision), e |-> the exponent]: its value is m * 2^e.  A long    *)
(* natural number is the sequence of its limbs, LimbBits binary digits     *)
(* each, the most significant first; the counts of characters stay below   *)
(* 2^21.                                                                   *)
(***************************************************************************)
\* binary digits of the mantissa of a double
Precision == 53

\* binary digits of a limb
LimbBits == 10

Limb == 2^LimbBits

\* limbs a quotient is worked out to behind the binary point: enough for the
\* zero digits of 1 / 2^21 and Precision + 1 digits after them
QuotientLimbs == 8

\* the number of binary digits of n >= 0
BitLength(n) ==
  IF n = 0 THEN 0 ELSE CHOOSE len \in 1..31 : 2^(len - 1) <= n /\ (len = 31 \/ n < 2^len)

\* the limbs of an int n >= 0
nat_limbs(n) == <<n \div 2^30, (n \div 2^20) % Limb, (n \div 2^10) % Limb, n % Limb>>

\* the int that limbs stand for
RECURSIVE nat_of(_)
nat_of(limbs) ==
  IF Len(limbs) = 0 THEN 0
  ELSE Limb * nat_of(SubSeq(limbs, 1, Len(limbs) - 1)) + limbs[Len(limbs)]

\* the number of binary digits of a long number whose first limb that is
\* not 0 is limbs[first]
bit_length_from(limbs, first) ==
  IF first > Len(limbs) THEN 0
  ELSE LimbBits * (Len(limbs) - first) + BitLength(limbs[first])

bit_length(limbs) == bit_length_from(limbs, FirstNotIn(limbs, 1, {0}))

\* binary digit k of a long number, digit 0 being the last
bit(limbs, k) ==
  IF k < 0 \/ k \div LimbBits >= Len(limbs) THEN 0
  ELSE (limbs[Len(limbs) - (k \div LimbBits)] \div 2^(k % LimbBits)) % 2

\* the binary digits below digit k are all 0
low_zero(limbs, k) ==
  /\ \A i \in 1..Len(limbs) : i > Len(limbs) - (k \div LimbBits) => limbs[i] = 0
  /\ k \div LimbBits < Len(limbs) =>
       limbs[Len(limbs) - (k \div LimbBits)] % 2^(k % LimbBits) = 0

\* the long number without its last s binary digits, s >= 0
shift_right(limbs, s) ==
  [i \in 1..(Len(limbs) - (s \div LimbBits)) |->
     ((IF i > 1 THEN limbs[i - 1] ELSE 0) % 2^(s % LimbBits)) * 2^(LimbBits - (s % LimbBits))
       + (limbs[i] \div 2^(s % LimbBits))]

\* the long number plus 1, j being the place of its last limb that is not
\* Limb - 1, 0 when there is none
increment_at(limbs, j) ==
  IF j = 0 THEN <<1>> \o [i \in 1..Len(limbs) |-> 0]
  ELSE [i \in 1..Len(limbs) |->
          IF i < j THEN limbs[i] ELSE IF i = j THEN limbs[i] + 1 ELSE 0]

increment(limbs) == increment_at(limbs, LastNotIn(limbs, Len(limbs), {Limb - 1}))

\* round to nearest, ties to even, of a long number without its last s binary
\* digits, s > 0.  inexact: the number is larger than its limbs say, by less
\* than 1
round_shift(limbs, s, inexact) ==
  IF /\ bit(limbs, s - 1) = 1
     /\ \/ inexact
        \/ ~low_zero(limbs, s - 1)
        \/ bit(limbs, s) = 1
    THEN increment(shift_right(limbs, s))
  ELSE shift_right(limbs, s)

\* the double nearest to a long number of more than Precision binary digits
\* times 2^e
nearest_double(limbs, e, inexact) ==
  [m |-> round_shift(limbs, bit_length(limbs) - Precision, inexact),
   e |-> e + bit_length(limbs) - Precision]

\* limbs[1..i] times k plus carry, for 0 < k < Limb
RECURSIVE TimesFrom(_, _, _, _)
TimesFrom(limbs, k, i, carry) ==
  IF i = 0 THEN <<carry>>
  ELSE Append(TimesFrom(limbs, k, i - 1, (limbs[i] * k + carry) \div Limb),
              (limbs[i] * k + carry) % Limb)

\* the long number times k
times(limbs, k) == TimesFrom(limbs, k, Len(limbs), 0)

\* limbs followed by the next n limbs of r / b (0 <= r < b) behind the binary
\* point, and the remainder they leave
RECURSIVE DivLimbs(_, _, _, _)
DivLimbs(limbs, r, b, n) ==
  IF n = 0 THEN <<limbs, r>>
  ELSE DivLimbs(Append(limbs, (Limb * r) \div b), (Limb * r) % b, b, n - 1)

\* the double nearest to the quotient with the limbs divided[1], QuotientLimbs
\* of them behind the binary point, divided[2] being the remainder left
quotient_double(divided) ==
  nearest_double(divided[1], 0 - LimbBits * QuotientLimbs, divided[2] # 0)

\* a / b for ints a > 0 and b > 0
float_div(a, b) == quotient_double(DivLimbs(nat_limbs(a \div b), a % b, b, QuotientLimbs))

\* x * k for a double x and an int 0 < k < Limb
float_times(x, k) == nearest_double(times(x.m, k), x.e, FALSE)

\* round(x, 2) of a double 0 < x < 2^Precision, in hundredths: round() gives
\* the decimal of two places nearest to the exact value of the double, the
\* even one of two equally near
round_2(x) == nat_of(round_shift(times(x.m, 100), 0 - x.e, FALSE))

\* |data_loss_pct| for a nonzero difference: (difference / extracted) * 100
data_loss_pct(difference, extracted) == float_times(float_div(difference, extracted), 100)

\* round(data_loss_pct, 2) in hundredths of a percent, where data_loss_pct =
\* (total_text_extracted - total_text_in_sections) / total_text_extracted * 100
\* if total_text_extracted > 0 else 0
data_loss_percentage(extracted, in_sections) ==
  IF extracted <= 0 \/ extracted = in_sections THEN 0
  ELSE IF extracted > in_sections
    THEN round_2(data_loss_pct(extracted - in_sections, extracted))
  ELSE 0 - round_2(data_loss_pct(in_sections - extracted, extracted))

\* "stats": {...}
stats_of(extracted, in_sections) ==
  [total_text_extracted |-> extracted,
   total_text_in_sections |-> in_sections,
   data_loss_percentage |-> data_loss_percentage(extracted, in_sections)]

\* doc.close() ... return {"metadata": ..., "sections": ..., "stats": ...}
Finish ==
  /\ pc = "scan"
  /\ pc' = "done"
  /\ page_index' = page_count - 1
  /\ result' = [metadata |-> [page_count |-> page_count],
                sections |-> processed_sections(sections, chunk_size, overlap, splitter_ok),
                stats |-> stats_of(total_text_extracted, text_in_sections(sections))]
  /\ UNCHANGED <<chunk_size, overlap, calls, splitter_ok, page_count, sections,
                 current_section, total_text_extracted, nlines, line, visited,
                 chunks_with_metadata, raised, peer,
                 line_spans, merged_line>>

\* what fitz.open raises for bytes that are no document
FileDataError == "fitz.FileDataError"

\* doc = fitz.open(stream=pdf_stream, filetype="pdf") raises at the start of
\* the call; neither _process_pdf_sync nor process_pdf has an except clause,
\* so the caller gets the exception of fitz and no dict
OpenFails ==
  /\ pc = "scan"
  /\ nlines = 0
  /\ page_index = 0
  /\ pc' = "raised"
  /\ raised' = FileDataError
  /\ UNCHANGED <<chunk_size, overlap, calls, splitter_ok, page_count, page_index,
                 sections, current_section, total_text_extracted, nlines, line, visited,
                 result, chunks_with_metadata, peer,
                 line_spans, merged_line>>

(***************************************************************************)
(* get_chunks_with_metadata(processed_result)                              *)
(***************************************************************************)
\* if chunks_with_pages: (the key is there and the list is not empty)
has_chunks_with_pages(sec) ==
  "chunks_with_pages" \in DOMAIN sec /\ Len(sec.chunks_with_pages) > 0

\* the entry appended for chunks_with_pages[idx - 1]; paper_title and
\* paper_author are left out as the title and the author are not in the model's
\* metadata
entry_with_page(sec, idx, chunk_global_id) ==
  [text |-> sec.chunks_with_pages[idx].text,
   metadata |-> [section |-> sec.name,
                 page |-> sec.chunks_with_pages[idx].page,
                 start_page |-> sec.start_page,
                 chunk_index |-> idx - 1,
                 chunk_global_id |-> chunk_global_id,
                 total_chunks_in_section |-> Len(sec.chunks_with_pages),
                 chunk_length |-> Len(sec.chunks_with_pages[idx].text)]]

\* the entry appended for chunks[idx - 1] ("old format"); len(chunk_text) is
\* the number of characters of a str and the number of keys of a dict
entry_old_format(sec, idx, chunk_global_id) ==
  [text |-> sec.chunks[idx],
   metadata |-> [section |-> sec.name,
                 page |-> sec.start_page,
                 start_page |-> sec.start_page,
                 chunk_index |-> idx - 1,
                 chunk_global_id |-> chunk_global_id,
                 total_chunks_in_section |-> Len(sec.chunks),
                 chunk_length |-> Cardinality(DOMAIN sec.chunks[idx])]]

\* a variant of section_entries that counts chunk_global_id from 0 in every
\* section
section_entries_restart(sec, first_id) ==
  IF has_chunks_with_pages(sec)
    THEN [idx \in 1..Len(sec.chunks_with_pages) |-> entry_with_page(sec, idx, idx - 1)]
    ELSE [idx \in 1..Len(sec.chunks) |-> entry_old_format(sec, idx, idx - 1)]

\* the entries of one section; first_id is chunk_global_id when its loop begins
section_entries(sec, first_id) ==
  IF has_chunks_with_pages(sec)
    THEN [idx \in 1..Len(sec.chunks_with_pages) |->
            entry_with_page(sec, idx, first_id + idx - 1)]
    ELSE [idx \in 1..Len(sec.chunks) |-> entry_old_format(sec, idx, first_id + idx - 1)]

\* for section_name, section_data in sections.items(), from section i on
RECURSIVE ChunksFrom(_, _, _)
ChunksFrom(secs, i, chunk_global_id) ==
  IF i > Len(secs) THEN << >>
  ELSE section_entries(secs[i], chunk_global_id)
       \o ChunksFrom(secs, i + 1,
                     chunk_global_id + Len(section_entries(secs[i], chunk_global_id)))

get_chunks_with_metadata(processed_result) ==
  ChunksFrom(processed_result.sections, 1, 0)

\* the caller passes the returned dict to get_chunks_with_metadata
GetChunksWithMetadata ==
  /\ pc = "done"
  /\ pc' = "listed"
  /\ chunks_with_metadata' = get_chunks_with_metadata(result)
  /\ UNCHANGED <<chunk_size, overlap, calls, splitter_ok, page_count, page_index,
                 sections, current_section, total_text_extracted, nlines, line, visited,
                 result, raised, peer,
                 line_spans, merged_line>>

Next ==
  \/ \E k \in 1..Len(LineTable) : SkipEmptyLine(Layout[k])
  \/ \E k \in 1..Len(LineTable), m \in MedianSizes : VisitHeader(Layout[k], m)
  \/ \E k \in 1..Len(LineTable), m \in MedianSizes : VisitFrontMatter(Layout[k], m)
  \/ \E k \in 1..Len(LineTable), m \in MedianSizes : VisitContent(Layout[k], m)
  \/ \E p \in TextPages : NextPage(p)
  \/ Finish
  \/ OpenFails
  \/ GetChunksWithMetadata

\* one call of process_pdf on a new DocumentProcessor
Spec == Init /\ [][Next]_vars

(***************************************************************************)
(* More calls of process_pdf on the same DocumentProcessor                 *)
(***************************************************************************)
\* calls of process_pdf per instance
MaxCalls == 2

\* process_pdf is called again once the call before it is over: it returned
\* ("done"), its result was passed to get_chunks_with_metadata ("listed"), or
\* it raised ("raised").  The locals of _process_pdf_sync are set up anew,
\* self.chunk_size and self.overlap stay
NewCall ==
  /\ pc \in {"done", "listed", "raised"}
  /\ calls < MaxCalls
  /\ calls' = calls + 1
  /\ pc' = "scan"
  /\ splitter_ok' \in BOOLEAN
  /\ page_count' \in PageCounts
  /\ page_index' = 0
  /\ sections' = new_sections(sections)
  /\ current_section' = "preamble"
  /\ total_text_extracted' = 0
  /\ nlines' = 0
  /\ line' = NoLine
  /\ visited' = << >>
  /\ result' = NoResult
  /\ raised' = None
  /\ chunks_with_metadata' = << >>
  /\ UNCHANGED <<chunk_size, overlap, peer, line_spans, merged_line>>

NextRepeat == Next \/ NewCall

SpecRepeat == Init /\ [][NextRepeat]_vars

(***************************************************************************)
(* One call on a document made of the lines of HeaderLineTable             *)
(***************************************************************************)
NextHeaders ==
  \/ \E k \in 1..Len(HeaderLineTable) : SkipEmptyLine(HeaderLayout[k])
  \/ \E k \in 1..Len(HeaderLineTable), m \in MedianSizes : VisitHeader(HeaderLayout[k], m)
  \/ \E k \in 1..Len(HeaderLineTable), m \in MedianSizes :
        VisitFrontMatter(HeaderLayout[k], m)
  \/ \E k \in 1..Len(HeaderLineTable), m \in MedianSizes : VisitContent(HeaderLayout[k], m)
  \/ \E p \in TextPages : NextPage(p)
  \/ Finish
  \/ OpenFails
  \/ GetChunksWithMetadata

SpecHeaders == Init /\ [][NextHeaders]_vars

\* the same pass over the lines of EdgeLineTable
NextEdges ==
  \/ \E k \in 1..Len(EdgeLineTable) : SkipEmptyLine(EdgeLayout[k])
  \/ \E k \in 1..Len(EdgeLineTable), m \in MedianSizes : VisitHeader(EdgeLayout[k], m)
  \/ \E k \in 1..Len(EdgeLineTable), m \in MedianSizes :
        VisitFrontMatter(EdgeLayout[k], m)
  \/ \E k \in 1..Len(EdgeLineTable), m \in MedianSizes : VisitContent(EdgeLayout[k], m)
  \/ \E p \in TextPages : NextPage(p)
  \/ Finish
  \/ OpenFails
  \/ GetChunksWithMetadata

SpecEdges == Init /\ [][NextEdges]_vars

(***************************************************************************)
(* Two calls of process_pdf on one DocumentProcessor, each run by          *)
(* asyncio.to_thread in a worker thread of its own.  A thread has a frame: *)
(* the names bound in its call (the locals of _process_pdf_sync, the       *)
(* value or exception it returned to its caller, and what the caller got   *)
(* from get_chunks_with_metadata for it).  The variables hold the frame of *)
(* the thread that is scheduled, peer the frame of the other thread;       *)
(* chunk_size and overlap are attributes of the one instance.              *)
(***************************************************************************)
\* layout lines per document when two calls run side by side
ConcurrentLines == 2

\* the lines of LineTable the documents of two such calls are made of: a
\* header with content behind it, a numbered header, a content line, an empty
\* line
ConcurrentKinds == {1, 5, 6}

\* the page counts of the documents of two such calls
ConcurrentPageCounts == {2}

\* the frame of the thread that is scheduled
call_locals ==
  [splitter_ok |-> splitter_ok, pc |-> pc, page_count |-> page_count,
   page_index |-> page_index, sections |-> sections,
   current_section |-> current_section,
   total_text_extracted |-> total_text_extracted, nlines |-> nlines, line |-> line,
   visited |-> visited, result |-> result, raised |-> raised,
   chunks_with_metadata |-> chunks_with_metadata]

\* the frame of a call that has just begun, for a document of `pages` pages
new_call_locals(ok, pages) ==
  [splitter_ok |-> ok, pc |-> "scan", page_count |-> pages, page_index |-> 0,
   sections |-> new_sections(sections), current_section |-> "preamble",
   total_text_extracted |-> 0, nlines |-> 0, line |-> NoLine, visited |-> << >>,
   result |-> NoResult, raised |-> None, chunks_with_metadata |-> << >>]

\* a variant of local_names where sections and current_section are
\* attributes of the instance (self.sections, self.current_section)
names_without_sections ==
  {"splitter_ok", "pc", "page_count", "page_index", "total_text_extracted", "nlines",
   "line", "visited", "result", "raised", "chunks_with_metadata"}

\* the names of a frame that are bound in the call itself: doc and its
\* page_count (fitz.open), page_index (the loop), sections, current_section,
\* total_text_extracted, the line at hand, the returned dict, the exception,
\* and the caller's list; pc, nlines and visited are the place the call has
\* reached.  No statement of the call assigns to an attribute of self
local_names ==
  {"splitter_ok", "pc", "page_count", "page_index", "sections", "current_section",
   "total_text_extracted", "nlines", "line", "visited", "result", "raised",
   "chunks_with_metadata"}

\* what the thread that is scheduled again finds under each name: under a
\* name of its own frame what it left there, under any other name what the
\* thread that ran meanwhile left
resumed(frame, running) ==
  [name \in DOMAIN frame |->
     IF name \in local_names THEN frame[name] ELSE running[name]]

\* the worker thread of a second process_pdf begins, wherever the first call
\* is: before its first line, in its loop, or after it returned
StartSecondCall ==
  /\ peer.pc = "idle"
  /\ calls < MaxCalls
  /\ calls' = calls + 1
  /\ \E ok \in BOOLEAN, pages \in ConcurrentPageCounts :
       peer' = new_call_locals(ok, pages)
  /\ UNCHANGED <<chunk_size, overlap, splitter_ok, pc, page_count, page_index,
                 sections, current_section, total_text_extracted, nlines, line, visited,
                 result, raised, chunks_with_metadata, line_spans, merged_line>>

\* the running worker thread is suspended and the other one goes on
SwitchThread ==
  /\ peer.pc # "idle"
  /\ peer' = call_locals
  /\ splitter_ok' = resumed(peer, call_locals).splitter_ok
  /\ pc' = resumed(peer, call_locals).pc
  /\ page_count' = resumed(peer, call_locals).page_count
  /\ page_index' = resumed(peer, call_locals).page_index
  /\ sections' = resumed(peer, call_locals).sections
  /\ current_section' = resumed(peer, call_locals).current_section
  /\ total_text_extracted' = resumed(peer, call_locals).total_text_extracted
  /\ nlines' = resumed(peer, call_locals).nlines
  /\ line' = resumed(peer, call_locals).line
  /\ visited' = resumed(peer, call_locals).visited
  /\ result' = resumed(peer, call_locals).result
  /\ raised' = resumed(peer, call_locals).raised
  /\ chunks_with_metadata' = resumed(peer, call_locals).chunks_with_metadata
  /\ UNCHANGED <<chunk_size, overlap, calls, line_spans, merged_line>>

\* the loop body for one more layout line of a document made of the lines
\* of ConcurrentKinds
ScanLine ==
  \/ \E k \in ConcurrentKinds : SkipEmptyLine(Layout[k])
  \/ \E k \in ConcurrentKinds, m \in MedianSizes : VisitHeader(Layout[k], m)
  \/ \E k \in ConcurrentKinds, m \in MedianSizes : VisitFrontMatter(Layout[k], m)
  \/ \E k \in ConcurrentKinds, m \in MedianSizes : VisitContent(Layout[k], m)

\* the steps of the call that is scheduled (its lines, its pages, its return,
\* a failure to open its bytes, the listing of its result), the start of a
\* second call, and a switch to the other thread
NextConcurrent ==
  \/ nlines < ConcurrentLines /\ ScanLine
  \/ \E p \in TextPages : NextPage(p)
  \/ Finish
  \/ OpenFails
  \/ GetChunksWithMetadata
  \/ StartSecondCall
  \/ SwitchThread

InitConcurrent == Init /\ page_count \in ConcurrentPageCounts

SpecConcurrent == InitConcurrent /\ [][NextConcurrent]_vars

(***************************************************************************)
(* _merge_spans(spans) as a function of the spans of one line              *)
(***************************************************************************)
\* spans per line
MaxSpans == 3

\* the spans a line can hold
SpanChoices ==
  {Span(text, size) :
     text \in {HyphenFragment, PlainFragment, PaddedFragment, LoneHyphen, BlankSpan},
     size \in MedianSizes}

\* the lines of at most MaxSpans spans
SpanLists == UNION {[1..n -> SpanChoices] : n \in 0..MaxSpans}

\* a processor as constructed, and a line about to be merged
InitMerge ==
  /\ chunk_size = ChunkSize
  /\ overlap = Overlap
  /\ calls = 1
  /\ splitter_ok = TRUE
  /\ pc = "scan"
  /\ page_count \in PageCounts
  /\ page_index = 0
  /\ sections = new_sections(<< >>)
  /\ current_section = "preamble"
  /\ total_text_extracted = 0
  /\ nlines = 0
  /\ line = NoLine
  /\ visited = << >>
  /\ result = NoResult
  /\ raised = None
  /\ chunks_with_metadata = << >>
  /\ peer = NoPeer
  /\ line_spans \in SpanLists
  /\ merged_line = NoMerged

\* text, max_size = self._merge_spans(spans)
MergeSpans ==
  /\ pc = "scan"
  /\ merged_line = NoMerged
  /\ merged_line' = merge_spans(line_spans)
  /\ UNCHANGED <<chunk_size, overlap, calls, splitter_ok, pc, page_count, page_index,
                 sections, current_section, total_text_extracted, nlines, line, visited,
                 result, raised, chunks_with_metadata, peer, line_spans>>

NextMerge == MergeSpans

SpecMerge == InitMerge /\ [][NextMerge]_vars

(***************************************************************************)
(* Properties of the accumulator and of the chunks                         *)
(***************************************************************************)
\* the visited lines whose section is name, tagged as the loop tags them
tagged_lines_of(name) ==
  LET mine == SelectSeq(visited, LAMBDA v : v.section = name)
  IN [j \in 1..Len(mine) |-> page_tagged(mine[j].page, mine[j].text)]

\* the number of buffered lines over all sections
RECURSIVE BufferedFrom(_, _)
BufferedFrom(secs, i) ==
  IF i > Len(secs) THEN 0 ELSE Len(secs[i].text) + BufferedFrom(secs, i + 1)

\* the chunks of a section of the result, each with its text and page
ChunksOf(sec) == IF sec.name = "unknown" THEN sec.chunks ELSE sec.chunks_with_pages

\* C1: in one pass every non-empty line is appended exactly once, tagged with
\* its own page, to exactly one section buffer, the section current when it is
\* visited: each buffer holds exactly the tagged lines visited under that
\* section, in order, every visited line's section has a buffer, and the
\* number of buffered lines over all sections is the number of non-empty
\* lines visited.
C1_EveryLineBufferedOnce ==
  /\ \A i \in 1..Len(sections) : sections[i].text = tagged_lines_of(sections[i].name)
  /\ \A j \in 1..Len(visited) : HasSection(sections, visited[j].section)
  /\ \A i, j \in 1..Len(sections) : sections[i].name = sections[j].name => i = j
  /\ BufferedFrom(sections, 1) = Len(visited)

\* three layout lines were visited, one of them empty and skipped, and the
\* two others went to two different sections
C1_TwoSectionsFilled ==
  /\ nlines = 3
  /\ Len(visited) = 2
  /\ visited[1].section # visited[2].section
  /\ \A j \in 1..2 : Len(SectionOf(sections, visited[j].section).text) = 1

\* C2: no chunk of any section of the result contains "[PAGE", on the primary
\* path and on the fallback path (the lines of the document hold no "[PAGE"
\* themselves).
C2_NoPageTagInChunks ==
  pc = "done" =>
    \A i \in 1..Len(result.sections) :
      \A j \in 1..Len(ChunksOf(result.sections[i])) :
        ~Contains(ChunksOf(result.sections[i])[j].text, PageOpen)

\* a section whose buffer holds tagged lines of two pages came out of the
\* splitter as two chunks or more
C2_TaggedSectionChunked ==
  /\ pc = "done"
  /\ splitter_ok
  /\ \E i \in 1..Len(result.sections) :
       LET sec == result.sections[i]
           buf == SectionOf(sections, sec.name).text
       IN /\ sec.name # "unknown"
          /\ Len(sec.chunks_with_pages) >= 2
          /\ Len(buf) >= 2
          /\ page_positions(JoinSpace(buf))[1][2] # page_positions(JoinSpace(buf))[Len(buf)][2]

\* the text handed to _chunk_text for a section of the result
section_text(name) ==
  str_strip(collapse_whitespace(joined_text(SectionOf(sections, name))))

\* the offset in the clean text of the first character behind the marker that
\* starts at index start of text: start - 1 less the characters that marker
\* stripping and whitespace collapsing remove in front of the marker
true_position(text, start) ==
  LET before == clean_text(SubSeq(text, 1, start - 1))
  IN IF Len(before) = 0 THEN 0 ELSE Len(before) + 1

\* the page of the latest marker whose true position is at or before offset
true_page(text, start_page, offset) ==
  LET starts == marker_starts(text)
      hits == {k \in 1..Len(starts) : true_position(text, starts[k]) <= offset}
  IN IF hits = {} THEN start_page
     ELSE page_positions(text)[CHOOSE k \in hits : \A j \in hits : j <= k][2]

\* C3: every chunk that _chunk_text returns carries the page of the marker
\* that governs the offset where the chunk's text really begins in the clean
\* text (start_page if none); stated for the chunks of the primary path,
\* whose places in the clean text are the spans the splitter cut.
C3_ChunkPageIsTruePage ==
  (pc = "done" /\ splitter_ok) =>
    \A i \in 1..Len(result.sections) :
      LET sec == result.sections[i]
          text == section_text(sec.name)
          spans == kept_spans(clean_text(text), chunk_size, overlap)
      IN sec.name # "unknown" =>
           \A j \in 1..Len(spans) :
             sec.chunks_with_pages[j].page
               = true_page(text, sec.start_page, spans[j][1] - 1)

\* C4: for every section of the result and every chunk of it,
\* section.start_page <= chunk.page <= metadata.page_count.
C4_ChunkPageInRange ==
  pc = "done" =>
    \A i \in 1..Len(result.sections) :
      \A j \in 1..Len(ChunksOf(result.sections[i])) :
        /\ result.sections[i].start_page <= ChunksOf(result.sections[i])[j].page
        /\ ChunksOf(result.sections[i])[j].page <= result.metadata.page_count

\* a section whose header came on page 1 and again on a later page has a
\* chunk on a page after its start_page
C4_SectionOverTwoPages ==
  /\ pc = "done"
  /\ \E i \in 1..Len(result.sections) :
       LET sec == result.sections[i]
       IN /\ sec.name = "abstract"
          /\ sec.start_page = 1
          /\ Len(visited) >= 2
          /\ visited[1].text = AbstractInline
          /\ visited[Len(visited)].text = AbstractInline
          /\ visited[Len(visited)].page > 1
          /\ \E j \in 1..Len(sec.chunks_with_pages) :
               sec.chunks_with_pages[j].page > sec.start_page

\* next begins with a suffix of prev of 1..limit characters that starts at a
\* word boundary of prev
word_aligned_overlap(prev, next, limit) ==
  \E n \in 1..limit :
    /\ n <= Len(prev)
    /\ n <= Len(next)
    /\ SubSeq(prev, Len(prev) - n + 1, Len(prev)) = SubSeq(next, 1, n)
    /\ ~IsSpace(prev[Len(prev) - n + 1])
    /\ n = Len(prev) \/ IsSpace(prev[Len(prev) - n])

\* C5: in every section with more than one chunk (overlap > 0), each chunk
\* after the first begins with a suffix of the chunk before it that is at
\* most `overlap` characters long and starts at a word boundary.
C5_OverlapIsWordAlignedSuffix ==
  (pc = "done" /\ overlap > 0) =>
    \A i \in 1..Len(result.sections) :
      \A j \in 1..(Len(ChunksOf(result.sections[i])) - 1) :
        word_aligned_overlap(ChunksOf(result.sections[i])[j].text,
                             ChunksOf(result.sections[i])[j + 1].text, overlap)

\* C6: every chunk is at most chunk_size + overlap characters long, unless
\* the section holds a single sentence that alone is longer than chunk_size.
C6_ChunkLengthBound ==
  pc = "done" =>
    \A i \in 1..Len(result.sections) :
      LET sec == result.sections[i]
          clean == clean_text(section_text(sec.name))
          sentences == sentence_spans(clean)
      IN (sec.name # "unknown"
          /\ \A k \in 1..Len(sentences) : SpanLen(sentences[k]) <= chunk_size) =>
           \A j \in 1..Len(sec.chunks_with_pages) :
             Len(sec.chunks_with_pages[j].text) <= chunk_size + overlap

\* the loop over the non-empty lines of a document, from line i on, run on
\* the locals (secs, current) of a call
RECURSIVE ScanFrom(_, _, _, _)
ScanFrom(lines, i, secs, current) ==
  IF i > Len(lines) THEN secs
  ELSE LET text == lines[i].text
           page_no == lines[i].page
           detected == layout_detected(text)
       IN IF detected[1] # None
            THEN ScanFrom(lines, i + 1, header_step(secs, text, page_no, detected),
                          detected[1])
          ELSE IF front_matter_branch(current, text)
            THEN ScanFrom(lines, i + 1, front_matter_step(secs, text, page_no), current)
          ELSE ScanFrom(lines, i + 1, content_step(secs, current, text, page_no), current)

\* what a DocumentProcessor(size, over) that has processed nothing before
\* returns for a document with the given non-empty lines and page count
first_call_result(lines, pages, size, over, ok) ==
  LET secs == ScanFrom(lines, 1, new_sections(<< >>), "preamble")
  IN [metadata |-> [page_count |-> pages],
      sections |-> processed_sections(secs, size, over, ok),
      stats |-> stats_of(SumLen([i \in 1..Len(lines) |-> lines[i].text]),
                         text_in_sections(secs))]

\* C7: processing is deterministic: whatever this instance processed before,
\* the result of a call (metadata, sections with their names, order, chunks
\* and pages, stats) is the result a new instance with the same chunk_size and
\* overlap returns for the same document.
C7_ResultDependsOnInputOnly ==
  pc = "done" =>
    result = first_call_result(visited, page_count, chunk_size, overlap, splitter_ok)

\* the second call on an instance returned, for a document with a header, after
\* a first call for some document
C7_SecondCallReturned ==
  /\ pc = "done"
  /\ calls = 2
  /\ Len(visited) >= 2
  /\ Len(result.sections) >= 1
  /\ \E i \in 1..Len(result.sections) : result.sections[i].name # "preamble"

\* the line visited last is a header
last_is_header == Len(line.text) > 0 /\ line.header_token # None

\* the buffer of the current section
current_buffer == SectionOf(sections, current_section).text

\* C8: when a line is classified as a header for c on page p, the current
\* section becomes c whatever it was, and a buffer for c that was not there is
\* created with start_page = p; every non-header line that follows is appended
\* to the current section, which stays c, until the next header.
C8_HeaderSwitchesSection ==
  [][(visited' # visited /\ pc' = "scan" /\ calls' = calls) =>
       LET c == line'.header_token
           tagged == page_tagged(line'.page, line'.text)
       IN IF c # None
            THEN /\ current_section' = c
                 /\ HasSection(sections', c)
                 /\ IF HasSection(sections, c)
                      THEN SectionOf(sections', c).start_page
                             = SectionOf(sections, c).start_page
                      ELSE SectionOf(sections', c).start_page = line'.page
          ELSE current_section # "preamble" =>
                 /\ current_section' = current_section
                 /\ SectionOf(sections', current_section).text
                      = Append(SectionOf(sections, current_section).text, tagged)]_vars

\* "2.1 Research Methodology" came on a later page while abstract was current:
\* methodology is current, starts on that page, and holds the line after it
C8_MethodologyOnLaterPage ==
  /\ Len(visited) = 3
  /\ visited[1].section = "abstract"
  /\ visited[2].text = NumberedHeader
  /\ visited[2].page > 1
  /\ visited[3].text = BodyTwoSentences
  /\ current_section = "methodology"
  /\ SectionOf(sections, "methodology").start_page = visited[2].page
  /\ Len(SectionOf(sections, "methodology").text) = 2

\* C9 as corrected: when a line is a header, what is appended to that section's
\* buffer, tagged with the header's page, is the whole line, alias and
\* separator included, also when nothing follows the alias.
C9_WholeHeaderLineAppended ==
  last_is_header =>
    /\ current_section = line.header_token
    /\ Len(current_buffer) > 0
    /\ current_buffer[Len(current_buffer)] = page_tagged(line.page, line.text)

\* C9 as stated: the entry appended for a header with inline content is the
\* remainder of the line, not the alias, and a header with an empty remainder
\* adds nothing of its line to the section.
C9_OnlyRemainderAppended ==
  last_is_header =>
    IF Len(line.remaining_text) > 0
      THEN /\ Len(current_buffer) > 0
           /\ current_buffer[Len(current_buffer)] = page_tagged(line.page, line.remaining_text)
      ELSE \A j \in 1..Len(current_buffer) :
             current_buffer[j] # page_tagged(line.page, line.text)

\* a header with inline content was visited last, and its remainder differs
\* from the line
C9_InlineHeaderVisited ==
  /\ last_is_header
  /\ line.text = AbstractInline
  /\ Len(line.remaining_text) > 0
  /\ line.remaining_text # line.text
  /\ pc = "scan"

\* the line visited last is no header and satisfies the front-matter predicate
last_is_front_matter ==
  Len(line.text) > 0 /\ line.header_token = None /\ is_front_matter_line(line.text)

\* C10 as corrected: a non-header line that satisfies the front-matter
\* predicate is appended to the buffer of the section that is current when it
\* is visited: to preamble only while preamble is current, to abstract when
\* abstract is current.
C10_FrontMatterGoesToCurrent ==
  last_is_front_matter =>
    /\ Len(current_buffer) > 0
    /\ current_buffer[Len(current_buffer)] = page_tagged(line.page, line.text)
    /\ current_section = visited[Len(visited)].section
    /\ BufferedFrom(sections, 1) = Len(visited)

\* C10 as stated: such a line is appended to the preamble buffer and to no
\* other section, whichever section is current.
C10_FrontMatterGoesToPreamble ==
  last_is_front_matter =>
    LET preamble == SectionOf(sections, "preamble").text
    IN /\ Len(preamble) > 0
       /\ preamble[Len(preamble)] = page_tagged(line.page, line.text)
       /\ current_section # "preamble" =>
            \A j \in 1..Len(current_buffer) :
              current_buffer[j] # page_tagged(line.page, line.text)

\* an author line was visited while abstract was current
C10_AuthorLineUnderAbstract ==
  /\ last_is_front_matter
  /\ line.text = AuthorLine
  /\ current_section = "abstract"
  /\ pc = "scan"

(***************************************************************************)
(* The flat list of get_chunks_with_metadata and the fields of a section   *)
(***************************************************************************)
\* the sum of chunk_count over the sections in front of section s
RECURSIVE chunks_before(_, _)
chunks_before(secs, s) ==
  IF s <= 1 THEN 0 ELSE chunks_before(secs, s - 1) + secs[s - 1].chunk_count

\* C11: get_chunks_with_metadata returns one entry per chunk of every section
\* of the result, sections in output order and chunks in their order inside
\* the section; entry k (from 0) has chunk_global_id = k, chunk_index is the
\* position inside the section and total_chunks_in_section the section's
\* chunk count, so the length is the sum of chunk_count over all sections.
C11_FlatListNumbersEveryChunk ==
  pc = "listed" =>
    /\ Len(chunks_with_metadata) = chunks_before(result.sections, Len(result.sections) + 1)
    /\ \A k \in 1..Len(chunks_with_metadata) :
         chunks_with_metadata[k].metadata.chunk_global_id = k - 1
    /\ \A s \in 1..Len(result.sections) :
         \A j \in 1..result.sections[s].chunk_count :
           LET entry == chunks_with_metadata[chunks_before(result.sections, s) + j]
           IN /\ entry.metadata.section = result.sections[s].name
              /\ entry.metadata.chunk_index = j - 1
              /\ entry.metadata.total_chunks_in_section = result.sections[s].chunk_count
              /\ entry.text = result.sections[s].chunks[j]

\* a result with a chunked named section followed by a chunked "unknown"
\* section was flattened
C11_TwoSectionsListed ==
  /\ pc = "listed"
  /\ \E s \in 1..Len(result.sections) :
       /\ s > 1
       /\ result.sections[s].name = "unknown"
       /\ result.sections[s].chunk_count > 0
       /\ result.sections[s - 1].chunk_count > 0
  /\ Len(chunks_with_metadata) >= 2

\* C12: for every section of the output, the "unknown" section included,
\* chunks is a list of strings, chunk_count = len(chunks) =
\* len(chunks_with_pages), chunks[i] = chunks_with_pages[i].text, and
\* avg_chunk_size is the floor of the mean length of those strings (0 when
\* there are none).
C12_ChunkFieldsAgree ==
  pc = "done" =>
    \A s \in 1..Len(result.sections) :
      LET sec == result.sections[s]
      IN /\ "chunks_with_pages" \in DOMAIN sec
         /\ sec.chunk_count = Len(sec.chunks)
         /\ Len(sec.chunks) = Len(sec.chunks_with_pages)
         /\ \A i \in 1..Len(sec.chunks) : sec.chunks[i] = sec.chunks_with_pages[i].text
         /\ sec.avg_chunk_size =
              (IF Len(sec.chunks) = 0 THEN 0 ELSE SumLen(sec.chunks) \div Len(sec.chunks))

\* C13: the preview of a retained section is the first 250 characters of the
\* section's cleaned text, the text after the page tags were removed and
\* white space collapsed, so a preview never contains a "[PAGE n]" tag.
C13_PreviewIsCleanText ==
  pc = "done" =>
    \A s \in 1..Len(result.sections) :
      result.sections[s].name # "unknown" =>
        /\ result.sections[s].preview =
             preview_of(clean_text(JoinSpace(
               SectionOf(sections, result.sections[s].name).text)))
        /\ ~Contains(result.sections[s].preview, PageOpen)

\* the section's lines are in the output: under its own name, or inside the
\* "unknown" section
in_output(sec) ==
  \E s \in 1..Len(result.sections) : result.sections[s].name \in {sec.name, "unknown"}

\* C14: total_text_in_sections counts only the characters of lines that
\* landed in a section retained in the output: the characters of a section
\* dropped for insufficient length are not added to it.
C14_DroppedTextNotCounted ==
  pc = "done" =>
    result.stats.total_text_in_sections = text_in_sections(SelectSeq(sections, in_output))

\* C15: total_text_in_sections <= total_text_extracted, so
\* 0 <= data_loss_percentage <= 100 (kept here in hundredths of a percent),
\* and data_loss_percentage = 0 exactly when every extracted character is in a
\* retained section: the page tags and the joining spaces are not counted.
C15_DataLossWithinRange ==
  pc = "done" =>
    /\ result.stats.total_text_in_sections <= result.stats.total_text_extracted
    /\ result.stats.data_loss_percentage >= 0
    /\ result.stats.data_loss_percentage <= 10000
    /\ (result.stats.data_loss_percentage = 0) <=>
         \A i \in 1..Len(sections) : Len(sections[i].text) > 0 => in_output(sections[i])

(***************************************************************************)
(* Calls that run side by side, failures, and length limits of headers     *)
(***************************************************************************)
\* the frame of a call holds what a call that runs alone holds after the same
\* lines; its result, once returned, is the result of that call, and the list
\* its caller got is the list of that result
runs_as_alone(c) ==
  /\ c.sections = ScanFrom(c.visited, 1, new_sections(<< >>), "preamble")
  /\ c.total_text_extracted = SumLen([i \in 1..Len(c.visited) |-> c.visited[i].text])
  /\ c.pc \in {"done", "listed"} =>
       c.result = first_call_result(c.visited, c.page_count, chunk_size, overlap,
                                    c.splitter_ok)
  /\ c.pc = "listed" => c.chunks_with_metadata = get_chunks_with_metadata(c.result)

\* C16: when process_pdf calls on the same DocumentProcessor run concurrently
\* in worker threads, under every interleaving each call returns the result a
\* solo run on its own input returns: no call reads or writes another call's
\* section buffers, current section or character counters, and no call changes
\* chunk_size or overlap.
C16_ConcurrentCallsRunAsAlone ==
  /\ chunk_size = ChunkSize
  /\ overlap = Overlap
  /\ runs_as_alone(call_locals)
  /\ peer.pc # "idle" => runs_as_alone(peer)

\* one call returned the result for its two lines, the second of them put
\* under the header of the first, while the other call, which had put a line
\* of its own into another section, was suspended in its loop
C16_ReturnedWhileOtherSuspended ==
  /\ pc = "done"
  /\ Len(visited) = 2
  /\ visited[1].section # "preamble"
  /\ visited[2].section = visited[1].section
  /\ Len(result.sections) >= 1
  /\ peer.pc = "scan"
  /\ Len(peer.visited) = 1
  /\ peer.current_section # current_section

\* the section of the result called name
result_section(name) ==
  result.sections[CHOOSE s \in 1..Len(result.sections) : result.sections[s].name = name]

\* C17: when the cascade splitter fails, _chunk_text does not propagate the
\* failure: it returns what the sentence-boundary fallback returns for the same
\* text and start_page, for the named sections and for the uncategorized text,
\* and process_pdf still returns a complete result.
C17_FailureFallsBackToSentences ==
  (pc \in {"done", "listed"} /\ ~splitter_ok) =>
    /\ raised = None
    /\ result.metadata.page_count = page_count
    /\ result.stats.total_text_extracted = total_text_extracted
    /\ \A i \in 1..Len(sections) :
         ~is_dropped(sections[i]) =>
           result_section(sections[i].name).chunks_with_pages =
             chunk_text_fallback(section_text(sections[i].name), sections[i].start_page,
                                 chunk_size, overlap)
    /\ \A s \in 1..Len(result.sections) :
         result.sections[s].name = "unknown" =>
           result.sections[s].chunks =
             chunk_text_fallback(uncategorized_text(sections), 1, chunk_size, overlap)

\* the splitter failed in a call whose result has a section that the fallback
\* cut into two chunks
C17_FallbackSplitTwoSentences ==
  /\ pc = "done"
  /\ ~splitter_ok
  /\ \E s \in 1..Len(result.sections) :
       /\ result.sections[s].name # "unknown"
       /\ result.sections[s].chunk_count >= 2

\* C18: when the bytes cannot be parsed as a document, process_pdf raises a
\* DocumentParseError to its caller and returns no partial result.
C18_UnparseableRaisesDocumentParseError ==
  pc = "raised" => (raised = "DocumentParseError" /\ result = NoResult)

\* the entries of aliases whose normalized variant is the normalized phrase
exact_aliases(phrase, aliases) ==
  SelectSeq(aliases, LAMBDA alias : normalized(alias.variant) = normalized(phrase))

\* the canonical section of the first alias that a phrase is exactly, or None
exact_alias(phrase) ==
  IF exact_aliases(phrase, section_aliases) = << >> THEN None
  ELSE exact_aliases(phrase, section_aliases)[1].canonical

\* the phrase of a numbered header: what follows the numbering prefix
phrase_from(text, start) ==
  IF start > 0 THEN SubSeq(text, start, Len(text)) ELSE text

numbered_phrase(text) == phrase_from(text, numbered_prefix_end(str_lower(text)))

\* the canonical section a line is exactly the header of, numbered or not
exact_header(text) ==
  IF exact_alias(text) # None THEN exact_alias(text) ELSE exact_alias(numbered_phrase(text))

\* C19: a visited line whose normalized text (punctuation stripped,
\* lower-cased) is exactly an alias, or whose phrase after a numbering prefix
\* is exactly an alias, is classified as a header of that alias's canonical
\* section and makes it the current section, whatever the font sizes.
C19_ExactAliasIsHeader ==
  (line # NoLine /\ exact_header(line.text) # None) =>
    /\ line.header_token = exact_header(line.text)
    /\ current_section = exact_header(line.text)

\* len(line_text) > 150 or len(line_text.split()) > 20
too_long_for_header(line_text) ==
  Len(line_text) > 150 \/ Len(str_split(line_text)) > 20

\* the section that was current before the line visited last
section_before_line ==
  IF Len(visited) <= 1 THEN "preamble" ELSE visited[Len(visited) - 1].section

\* C20: a visited line of more than 150 characters or more than 20 words is
\* not classified as a header: the current section is the one from before
\* the line, and no section was created for it.
C20_LongLineIsNoHeader ==
  (line # NoLine /\ too_long_for_header(line.text)) =>
    /\ line.header_token = None
    /\ current_section = section_before_line
    /\ \A i \in 1..Len(sections) :
         \/ sections[i].name = "preamble"
         \/ \E j \in 1..(Len(visited) - 1) : visited[j].section = sections[i].name

\* any(skip in lower for skip in self._skip_patterns)
has_skip_token(text) == \E skip \in skip_patterns : Contains(str_lower(text), skip)

\* C21: a line whose lower-cased text contains one of the metadata tokens
\* (doi, http, @, received, ...) is classified as a header neither by
\* _detect_header_with_content nor by _detect_header, whatever the font
\* sizes, and visiting it leaves the current section as it was.
C21_SkipLineIsNoHeader ==
  (line # NoLine /\ has_skip_token(line.text)) =>
    /\ line.header_token = None
    /\ \A size \in MedianSizes, m \in MedianSizes :
         /\ detect_header(line.text, size, m) = None
         /\ detect_header_with_content(line.text, size, m)[1] = None
    /\ current_section = section_before_line

\* the line "Results: doi 10.1/x" was visited while a section other than
\* preamble was current
C21_SkipLineUnderSection ==
  /\ line.text = SkipLine
  /\ Len(visited) >= 2
  /\ current_section # "preamble"

\* the page number in the tag "[PAGE n] " that opens a buffered line
entry_page(entry) ==
  ParseInt(SubSeq(entry, Len(PageOpen) + 1, FirstNotIn(entry, Len(PageOpen) + 1, DigitSet) - 1))

\* the buffer of a section holds its lines in non-decreasing page order, none
\* before the section's start_page
buffer_in_page_order(sec) ==
  /\ \A j \in 1..Len(sec.text) : sec.start_page <= entry_page(sec.text[j])
  /\ \A j \in 1..(Len(sec.text) - 1) :
       entry_page(sec.text[j]) <= entry_page(sec.text[j + 1])

\* sec after a step: same name, same start_page, the lines it had in front
extends_section(sec, after) ==
  /\ after.name = sec.name
  /\ after.start_page = sec.start_page
  /\ Len(after.text) >= Len(sec.text)
  /\ SubSeq(after.text, 1, Len(sec.text)) = sec.text

\* the number of buffered lines over all sections
buffered_count(secs) == SumLen([i \in 1..Len(secs) |-> secs[i].text])

\* C22: once a section's buffer exists no later step changes its start_page
\* or removes or replaces lines already in it; a step adds at most one line,
\* at the end of one buffer, and every buffer keeps non-decreasing pages.
C22_BuffersOnlyGrow ==
  /\ [](\A i \in 1..Len(sections) : buffer_in_page_order(sections[i]))
  /\ [][/\ Len(sections') >= Len(sections)
        /\ \A i \in 1..Len(sections) : extends_section(sections[i], sections'[i])
        /\ buffered_count(sections') <= buffered_count(sections) + 1]_vars

\* a header of a section that already exists was visited on a later page
\* than the one where the section began
C22_HeaderAgainOnLaterPage ==
  /\ pc = "scan"
  /\ line.header_token # None
  /\ line.page > SectionOf(sections, current_section).start_page
  /\ Len(SectionOf(sections, current_section).text) >= 2

\* the length of the buffered lines of a section joined by single spaces
raw_length(sec) ==
  SumLen(sec.text) + (IF Len(sec.text) > 0 THEN Len(sec.text) - 1 ELSE 0)

\* the result holds a section of that name
in_result(name) == \E s \in 1..Len(result.sections) : result.sections[s].name = name

\* C23: after the pass a section is absent from the output under its own
\* name exactly when its raw buffer text (tagged lines joined by spaces) is at
\* most 30 characters long and the section is neither abstract nor
\* introduction.
C23_DroppedExactlyWhenShort ==
  pc = "done" =>
    \A i \in 1..Len(sections) :
      in_result(sections[i].name) <=>
        \/ raw_length(sections[i]) > MinSectionLen
        \/ sections[i].name \in {"abstract", "introduction"}

\* the result holds an abstract of at most 30 raw characters and a section of
\* exactly 31, and the empty preamble was dropped
C23_ShortAbstractAndLimitKept ==
  /\ pc = "done"
  /\ \E i \in 1..Len(sections) :
       /\ sections[i].name = "abstract"
       /\ raw_length(sections[i]) <= MinSectionLen
       /\ in_result("abstract")
  /\ \E i \in 1..Len(sections) :
       /\ raw_length(sections[i]) = MinSectionLen + 1
       /\ sections[i].name \notin {"abstract", "introduction"}
       /\ in_result(sections[i].name)
  /\ ~in_result("preamble")

\* a trimmed piece of 50 characters or more
at_least_min(sp) == SpanLen(sp) >= MinChunkLen

\* the trimmed pieces of the cascade splitter that are 50 characters long or
\* longer, for the text of a section
pieces_of_min_length(text) ==
  span_texts(clean_text(text),
             SelectSeq(strip_spans(clean_text(text),
                                   split_text(clean_text(text), chunk_size, overlap)),
                       at_least_min))

\* C24: _chunk_text discards exactly the pieces shorter than 50 characters
\* after trimming: the chunks of a section are the trimmed pieces of 50
\* characters or more, a piece of exactly 50 included.
C24_PiecesOfFiftySurvive ==
  (pc = "done" /\ splitter_ok) =>
    \A i \in 1..Len(sections) :
      ~is_dropped(sections[i]) =>
        result_section(sections[i].name).chunks =
          pieces_of_min_length(section_text(sections[i].name))

\* C30: every section present in the output has at least one chunk, so every
\* retained section, a short abstract or introduction included, contributes
\* at least one entry to the list of get_chunks_with_metadata.
C30_RetainedSectionHasChunk ==
  /\ pc \in {"done", "listed"} =>
       \A s \in 1..Len(result.sections) : result.sections[s].chunk_count >= 1
  /\ pc = "listed" =>
       \A s \in 1..Len(result.sections) :
         \E k \in 1..Len(chunks_with_metadata) :
           chunks_with_metadata[k].metadata.section = result.sections[s].name

\* the separators of the cascade that have characters
cascade_separators == {separators[s] : s \in {k \in 1..Len(separators) : separators[k] # << >>}}

\* the separators that end a sentence
sentence_separators == {<<".", " ">>, <<"!", " ">>, <<"?", " ">>}

\* a cut behind index c of t (0: in front of the text) lies at an end of the
\* text or right behind one of the separators of the set
cut_behind(t, c, seps) ==
  \/ c = 0
  \/ c = Len(t)
  \/ \E sep \in seps : c >= Len(sep) /\ StartsWithAt(t, c - Len(sep) + 1, sep)

\* the cut behind the sentence around a cut behind index c
sentence_end(t, c) ==
  CHOOSE e \in c..Len(t) :
    /\ cut_behind(t, e, sentence_separators)
    /\ \A x \in c..(e - 1) : ~cut_behind(t, x, sentence_separators)

\* the cut in front of the sentence around a cut behind index c
sentence_start(t, c) ==
  CHOOSE s \in 0..c :
    /\ cut_behind(t, s, sentence_separators)
    /\ \A x \in (s + 1)..c : ~cut_behind(t, x, sentence_separators)

\* the length of the sentence around a cut behind index c, the sentence
\* alone: with its closing punctuation, without the space behind it
sentence_length_around(t, c) ==
  sentence_end(t, c) - sentence_start(t, c)
    - (IF sentence_end(t, c) < Len(t) /\ sentence_end(t, c) > sentence_start(t, c)
         THEN 1 ELSE 0)

\* an allowed cut: behind a separator of the cascade, and inside
\* a sentence only when that sentence alone is longer than chunk_size
cut_allowed(t, c) ==
  /\ cut_behind(t, c, cascade_separators)
  /\ \/ cut_behind(t, c, sentence_separators)
     \/ sentence_length_around(t, c) > chunk_size

\* the cut that closes a trimmed chunk whose last character is t[b]: behind
\* the white space that follows it
closing_cut(t, b) == IF b >= Len(t) THEN Len(t) ELSE b + 1

\* a trimmed chunk lies in t between two allowed cuts
chunk_between_allowed_cuts(t, chunk) ==
  \E a \in 1..Len(t) :
    /\ StartsWithAt(t, a, chunk)
    /\ cut_allowed(t, a - 1)
    /\ cut_allowed(t, closing_cut(t, a + Len(chunk) - 1))

\* C25: on the primary path every chunk begins and ends at a separator of
\* the cascade (or at an end of the section text), the separator kept at the
\* end of the piece it closes, and a chunk boundary lies inside a sentence
\* only when that sentence alone is longer than chunk_size.
C25_BoundariesAtSeparators ==
  (pc = "done" /\ splitter_ok) =>
    \A i \in 1..Len(sections) :
      ~is_dropped(sections[i]) =>
        \A k \in 1..Len(result_section(sections[i].name).chunks) :
          chunk_between_allowed_cuts(clean_text(section_text(sections[i].name)),
                                     result_section(sections[i].name).chunks[k])

\* the span texts of a line that are not empty once trimmed, trimmed
fragments_of(spans) ==
  SelectSeq([i \in 1..Len(spans) |-> str_strip(spans[i].text)],
            LAMBDA s_text : Len(s_text) > 0)

\* the fragments joined by one space each, a hyphen at the end of what is
\* joined so far removed and the next fragment put right behind it
RECURSIVE joined_fragments(_)
joined_fragments(frags) ==
  IF Len(frags) = 0 THEN << >>
  ELSE IF Len(frags) = 1 THEN frags[1]
  ELSE IF joined_fragments(SubSeq(frags, 1, Len(frags) - 1))
            [Len(joined_fragments(SubSeq(frags, 1, Len(frags) - 1)))] = "-"
    THEN SubSeq(joined_fragments(SubSeq(frags, 1, Len(frags) - 1)), 1,
                Len(joined_fragments(SubSeq(frags, 1, Len(frags) - 1))) - 1)
         \o frags[Len(frags)]
  ELSE joined_fragments(SubSeq(frags, 1, Len(frags) - 1)) \o <<" ">> \o frags[Len(frags)]

\* the largest font size over the spans of a line, 0 for no span
largest_size(spans) ==
  IF Len(spans) = 0 THEN 0
  ELSE CHOOSE size \in {spans[i].size : i \in 1..Len(spans)} :
         \A i \in 1..Len(spans) : spans[i].size <= size

\* C26: _merge_spans returns the span texts that are not empty once trimmed,
\* in order and joined by exactly one space, except that a hyphen at the end
\* of the text joined so far is removed and the next such fragment follows
\* with no space; spans of white space add nothing; the size returned is the
\* largest font size over all spans of the line.
C26_MergeSpansJoinsFragments ==
  merged_line # NoMerged =>
    /\ merged_line[1] = joined_fragments(fragments_of(line_spans))
    /\ merged_line[2] = largest_size(line_spans)
    /\ (\A k \in 1..Len(fragments_of(line_spans)) :
          fragments_of(line_spans)[k][Len(fragments_of(line_spans)[k])] # "-")
         => merged_line[1] = JoinSpace(fragments_of(line_spans))

\* a line was merged whose first span ends in a hyphen, whose second span is
\* white space in the larger font, and whose third span completes the word
C26_BrokenWordRepaired ==
  /\ merged_line # NoMerged
  /\ Len(line_spans) = MaxSpans
  /\ line_spans[1] = Span(HyphenFragment, BodySize)
  /\ line_spans[2] = Span(BlankSpan, HeaderSize)
  /\ line_spans[Len(line_spans)].text = PlainFragment
  /\ merged_line[1] = SubSeq(HyphenFragment, 1, Len(HyphenFragment) - 1) \o PlainFragment
  /\ merged_line[2] = HeaderSize

\* the loop over the non-empty lines of a document with the front-matter
\* branch removed: a line is a header or regular content
RECURSIVE ScanWithoutFrontMatter(_, _, _, _)
ScanWithoutFrontMatter(lines, i, secs, current) ==
  IF i > Len(lines) THEN secs
  ELSE IF layout_detected(lines[i].text)[1] # None
    THEN ScanWithoutFrontMatter(lines, i + 1,
                                header_step(secs, lines[i].text, lines[i].page,
                                            layout_detected(lines[i].text)),
                                layout_detected(lines[i].text)[1])
  ELSE ScanWithoutFrontMatter(lines, i + 1,
                              content_step(secs, current, lines[i].text, lines[i].page),
                              current)

\* C27: the front-matter check has no effect: after every line the section
\* buffers are those of the same pass without the front-matter branch, and so
\* are the sections and the stats of the result.
C27_FrontMatterBranchHasNoEffect ==
  /\ sections = ScanWithoutFrontMatter(visited, 1, new_sections(<< >>), "preamble")
  /\ pc = "done" =>
       /\ result.sections =
            processed_sections(ScanWithoutFrontMatter(visited, 1, new_sections(<< >>),
                                                      "preamble"),
                               chunk_size, overlap, splitter_ok)
       /\ result.stats.total_text_in_sections =
            text_in_sections(ScanWithoutFrontMatter(visited, 1, new_sections(<< >>),
                                                    "preamble"))

\* the pass returned for a document whose first line is a front-matter line
\* visited while preamble was current, followed by a header
C27_FrontMatterLineInPreamble ==
  /\ pc = "done"
  /\ Len(visited) >= 2
  /\ is_front_matter_line(visited[1].text)
  /\ layout_detected(visited[1].text)[1] = None
  /\ visited[1].section = "preamble"
  /\ visited[2].section # "preamble"
  /\ in_result("preamble")

\* the lines of LineTable in a document in which every span has the body size
UniformLayout ==
  [k \in 1..Len(LineTable) |-> scanned_line(Layout[k].text, BodySize)]

\* the loop over the non-empty lines of a document, the header token and the
\* remaining text of every line taken from `table`
RECURSIVE ScanAtSizes(_, _, _, _, _)
ScanAtSizes(lines, i, secs, current, table) ==
  IF i > Len(lines) THEN secs
  ELSE IF detected_in(table, lines[i].text)[1] # None
    THEN ScanAtSizes(lines, i + 1,
                     header_step(secs, lines[i].text, lines[i].page,
                                 detected_in(table, lines[i].text)),
                     detected_in(table, lines[i].text)[1], table)
  ELSE IF front_matter_branch(current, lines[i].text)
    THEN ScanAtSizes(lines, i + 1, front_matter_step(secs, lines[i].text, lines[i].page),
                     current, table)
  ELSE ScanAtSizes(lines, i + 1,
                   content_step(secs, current, lines[i].text, lines[i].page),
                   current, table)

\* C28: section assignment does not depend on font sizes: the buffers, and
\* the sections and stats of the result, are those of a document with the
\* same line texts on the same pages in which every span has the body size
\* and every page that median.
C28_SectionsIndependentOfFontSizes ==
  /\ sections = ScanAtSizes(visited, 1, new_sections(<< >>), "preamble", UniformLayout)
  /\ pc = "done" =>
       /\ result.sections =
            processed_sections(ScanAtSizes(visited, 1, new_sections(<< >>), "preamble",
                                           UniformLayout),
                               chunk_size, overlap, splitter_ok)
       /\ result.stats =
            stats_of(SumLen([i \in 1..Len(visited) |-> visited[i].text]),
                     text_in_sections(ScanAtSizes(visited, 1, new_sections(<< >>),
                                                  "preamble", UniformLayout)))

\* the pass returned for a document that holds the numbered header, set in
\* the header size, and a line set in the body size
C28_LinesOfTwoSizes ==
  /\ pc = "done"
  /\ \E i \in 1..Len(visited) : visited[i].text = NumberedHeader
  /\ \E i \in 1..Len(visited) : visited[i].text = BodyTwoSentences
  /\ in_result("methodology")

\* the pages of a list of chunks never decrease
pages_in_order(chunks_with_pages) ==
  \A k \in 1..(Len(chunks_with_pages) - 1) :
    chunks_with_pages[k].page <= chunks_with_pages[k + 1].page

\* C29: within one section the pages of the chunks that _chunk_text returns
\* are non-decreasing in chunk order, the page tags of the buffer being
\* non-decreasing.
C29_ChunkPagesNonDecreasing ==
  pc = "done" =>
    \A s \in 1..Len(result.sections) :
      result.sections[s].name # "unknown" =>
        pages_in_order(result.sections[s].chunks_with_pages)

\* the cascade splitter cut a section that runs over two pages into chunks
\* on different pages
C29_ChunksOnTwoPages ==
  /\ pc = "done"
  /\ splitter_ok
  /\ \E s \in 1..Len(result.sections) :
       /\ result.sections[s].name # "unknown"
       /\ result.sections[s].chunk_count >= 2
       /\ result.sections[s].chunks_with_pages[1].page
            < result.sections[s].chunks_with_pages[result.sections[s].chunk_count].page
====
